---- MODULE Spec2Model ----
\* Playback engine of njyeung/reels: the AVPlayer facade (player/player.go)
\* and one playSession per loop iteration of Play (player/session.go), with
\* its three activities: demuxLoop, audioDecodeLoop and videoRenderLoop.
EXTENDS FiniteSets, Integers, Sequences, TLC

\* ---------------------------------------------------------------- bounds
NPlayers == 2          \* goroutines that may call AVPlayer.Play
VideoQueueCap == 1     \* capacity of videoPktCh (30 in the code), scaled down
AudioQueueCap == 1     \* capacity of audioPktCh (64 in the code), scaled down
\* one Play call looked at closely (SpecSession)
SessionPkts == 3       \* packets ReadPacket returns per session before EOF
SessionRuns == 1       \* playSessions constructed
SessionCtlOps == 2     \* control calls (Stop, Pause, Close) made by the UI
\* overlapping Play calls on short media (SpecFacade)
FacadePkts == 1
FacadeRuns == 2
FacadeCtlOps == 1
\* one Play call with every decode outcome and frame timing (SpecSync)
SyncPkts == 2
SyncRuns == 1
SyncCtlOps == 1

\* bytes of decoded audio per audio packet
AudioChunkBytes == 17640

\* the pull callback of the audio device (SpecStream): stereo samples asked
\* for by one callback, DecodePacket calls that append to the sample buffer,
\* and ResetClock calls
StreamMaxReq == 2
StreamDecodes == 2
StreamResets == 1
StreamMaxCalls == 3
\* byte patterns of the pixel data given to writeImageDirect (SpecDirect)
NPatterns == 7
\* frames given to one renderer and SetUseShm calls on it (SpecRender)
MaxRenders == 3
MaxShmSets == 2
\* GIF overlays (SpecGifs): frames of an animation, SetVisibleGifs calls and
\* the time up to which animations advance
NGifFrames == 4
MaxGifSets == 3
MaxGifTime == 3
\* goroutines calling Download for one reel and their calls in all
\* (SpecDownload)
NDownloaders == 3
MaxDlCalls == 4
\* the largest width and height of a video and of a bounding box, the
\* hardware configurations a codec lists at most, and the calls that set a
\* size on one decoder (SpecDecoder)
MaxDim == 4
MaxConfigs == 2
MaxSizes == 1
\* the reels the UI can move through and the Download calls it makes
\* (SpecCache)
NReels == 12
MaxCacheCalls == 13
\* the control calls made on one AVPlayer, and the sessions its Play builds
\* (SpecControl)
CtlCalls == 2
CtlSessions == 2
\* constructions of an AudioPlayer (SpecSpeaker): goroutines that construct,
\* and constructions in all
NCtors == 3
MaxCtorCalls == 4

\* types.go; SyncThreshold (0.1 s) in milliseconds
SyncThreshold == 100
AudioSampleRate == 44100
AudioChannels == 2

\* the sleep of the frame pacing that replaces the sync rule without audio
Paced == -1

\* the ways VideoDecoder.DecodePacket and AudioPlayer.DecodePacket can end
VideoPaths == {"ok", "no_frame", "send_fail", "receive_fail", "sws_fail",
               "scale_fail", "bytes_fail"}
AudioPaths == {"ok", "send_fail", "receive_fail", "alloc_skip",
               "resample_skip"}

Players == 1..NPlayers
PktIds == 1..SessionPkts

\* what the environment does in a behaviour: which goroutines call Play, how
\* many packets a media file holds at most, how many sessions and control
\* calls are made, which differences (ms) between a frame's PTS and the audio
\* clock occur, in which ways the decoders' DecodePacket calls end, whether
\* the frames of the render loop are counted (frameHist), and how the set-up
\* of the audio player in newPlaySession can end.  SpecSync varies the frame
\* timing, the decode paths and the audio set-up; the other two keep the
\* frame on time and vary the callers, the sessions and the control calls.
SessionEnv ==
    [callers |-> {1}, pkts |-> SessionPkts, runs |-> SessionRuns,
     ctl |-> SessionCtlOps, diffs |-> {0},
     vpaths |-> {"ok", "no_frame", "send_fail"}, apaths |-> {"ok"},
     frames |-> FALSE, audios |-> {"none", "open"},
     built |-> "none"]

FacadeEnv ==
    [callers |-> Players, pkts |-> FacadePkts, runs |-> FacadeRuns,
     ctl |-> FacadeCtlOps, diffs |-> {0},
     vpaths |-> {"ok", "no_frame", "send_fail"}, apaths |-> {"ok"},
     frames |-> FALSE, audios |-> {"none", "open"},
     built |-> "none"]

SyncEnv ==
    [callers |-> {1}, pkts |-> SyncPkts, runs |-> SyncRuns,
     ctl |-> SyncCtlOps, diffs |-> {-150, -100, 0, 100, 150},
     vpaths |-> VideoPaths, apaths |-> AudioPaths, frames |-> TRUE,
     audios |-> {"none", "failed", "open"},
     built |-> "none"]

VARIABLES
    env,
    \* AVPlayer
    playing, paused, playMu, session, renderer,
    \* one Play call per goroutine: position, local session, run()'s err
    pc, result, panicking,
    \* the playSession held in each Play goroutine's slot
    sid, status, audio, audioPaused, audioPlaying, video, demuxer,
    audioPktChField, videoPktCh, videoClosed, audioPktCh, audioClosed,
    stopCh, stopOnce,
    \* render loop (runs on the Play goroutine)
    pkt, loopErr, frameDiff, slept,
    \* demux goroutine
    demuxPc, demuxPkt, readPos, isVideo,
    \* audio-decode goroutine
    audioPc, audioRange, audioErr,
    \* UI goroutine
    cpc, cSession, ctlOps,
    \* accounting (history)
    nsessions, freed, cloned, cloneFreed, taken, decoded,
    nFrames, nRendered, nDropped,
    stopSeen, stopInPause, closeInvoked, closeReturned, lateFrame, sentAfterClose,
    sessionsRun, crashed

VARIABLES
    \* the components checked on their own, outside a playback session, one
    \* record each:
    \* an AudioPlayer with its audioStreamer (the pull callback of the
    \* device): sampleBuf, clock, paused, closed, the callback's position,
    \* arguments and results, and its accounting
    audioPlayer,
    \* the process-global speaker (speakerOnce, speakerInitErr, the number of
    \* speaker.Init calls) and the goroutines constructing players
    speakerDev,
    \* writeImageDirect called on its own: the pixel data and what it wrote
    directTx,
    \* a KittyRenderer: its fields, the files it left in /dev/shm, and for
    \* the last RenderFrame its data, the writes to out, the outcome of
    \* writeImageShm and the error returned
    kitty,
    \* GIF overlays: AVPlayer.gifSlots, whether a session is current, the
    \* session's visibleGif records, the image IDs deleted by the last
    \* replacement of the list, the time, and the calls made
    gifs,
    \* ChromeBackend.Download of one reel: fifoMap[videoFile],
    \* inProgress[videoFile] (0: no entry), the channels made and closed, and
    \* for each caller its position, the channel it waits on, its own done
    \* channel and its result
    downloads,
    \* what is remembered of the calls made on the AVPlayer: the Play calls
    \* that were in flight when the latest Stop() stored playing = false,
    \* and for each session the chunks of decoded audio that the device has
    \* taken from the sample buffer
    calls,
    \* the AVPlayer seen from its control calls: the session registered, the
    \* state of that session's audio player, video decoder and overlay, the
    \* stored GIF slots, and the positions of the Play goroutine and of the
    \* UI goroutine inside their calls
    facade,
    \* a VideoDecoder: the platform, the hardware configurations of the codec
    \* and the devices that can be created (what NewVideoDecoder finds), the
    \* fields useHardware, srcWidth, srcHeight, dstWidth, dstHeight, and the
    \* device type chosen
    videoDecoder,
    \* the download cache: fifoList, the keys of fifoMap, the files in the
    \* cache directory, the reel the UI is at, and the last Download call
    cache

compVars == <<audioPlayer, speakerDev, directTx, kitty, gifs, downloads,
              calls, facade,
              videoDecoder, cache>>

playerVars == <<playing, paused, playMu, session, renderer>>
threadVars == <<pc, result, panicking>>
sessVars == <<sid, status, audio, audioPaused, audioPlaying, video, demuxer,
              audioPktChField, stopCh, stopOnce>>
queueVars == <<videoPktCh, videoClosed, audioPktCh, audioClosed>>
frameVars == <<frameDiff, slept>>
renderVars == <<pkt, loopErr, frameVars>>
demuxVars == <<demuxPc, demuxPkt, readPos, isVideo>>
audioVars == <<audioPc, audioRange, audioErr>>
ctlVars == <<cpc, cSession, ctlOps>>
frameHist == <<nFrames, nRendered, nDropped>>
pktHist == <<freed, cloned, cloneFreed, taken, decoded, frameHist>>
callHist == <<env, compVars, nsessions, stopSeen, stopInPause, closeInvoked, closeReturned, lateFrame,
              sentAfterClose, sessionsRun, crashed>>

vars == <<playerVars, threadVars, sessVars, queueVars, renderVars, demuxVars,
          audioVars, ctlVars, pktHist, callHist>>

\* ---------------------------------------------------------------- helpers
Cap2(n) == IF n >= 2 THEN 2 ELSE n

\* how often packet i of slot t was freed (0, 1, or 2 = more than once)
NoFrees == [i \in PktIds |-> 0]

Free(f, i) == [f EXCEPT ![i] = Cap2(@ + 1)]

\* the slot holding session s, if it is still there
Holds(t, s) == s # 0 /\ sid[t] = s

\* ---------------------------------------------------------------- Init
\* NewAVPlayer: no renderer, no session, nothing playing.
\* every variable of a playback session: what a component checked on its own
\* leaves alone
avVars == <<playerVars, threadVars, sessVars, queueVars, renderVars,
            demuxVars, audioVars, ctlVars, pktHist, env, nsessions, stopSeen,
            stopInPause, closeInvoked, closeReturned, lateFrame,
            sentAfterClose, sessionsRun, crashed>>

\* what a step of one component leaves alone
streamRest == <<avVars, speakerDev, directTx, kitty, gifs, downloads,
                 calls, facade,
              videoDecoder, cache>>
speakerRest == <<avVars, audioPlayer, directTx, kitty, gifs, downloads,
                  calls, facade,
              videoDecoder, cache>>
directRest == <<avVars, audioPlayer, speakerDev, kitty, gifs, downloads,
                 calls, facade,
              videoDecoder, cache>>
kittyRest == <<avVars, audioPlayer, speakerDev, directTx, gifs, downloads,
                calls, facade,
              videoDecoder, cache>>
gifRest == <<avVars, audioPlayer, speakerDev, directTx, kitty, downloads,
              calls, facade,
              videoDecoder, cache>>
dlRest == <<avVars, audioPlayer, speakerDev, directTx, kitty, gifs,
             calls, facade,
              videoDecoder, cache>>
facadeRest == <<avVars, audioPlayer, speakerDev, directTx, kitty, gifs,
                downloads, calls, videoDecoder, cache>>
decoderRest == <<avVars, audioPlayer, speakerDev, directTx, kitty, gifs,
                 downloads, calls, facade, cache>>
cacheRest == <<avVars, audioPlayer, speakerDev, directTx, kitty, gifs,
               downloads, calls, facade, videoDecoder>>
\* the components, the call history apart
builtVars == <<audioPlayer, speakerDev, directTx, kitty, gifs, downloads,
               facade, videoDecoder, cache>>

\* the goroutines that construct AudioPlayers
Ctors == 1..NCtors

\* what the device's buffer holds before a callback writes it
StaleSample == <<99999, 99999>>

\* NewAudioPlayer: sampleBuf empty, clock.Store(0), paused and closed false;
\* no callback has run
StreamInit ==
    audioPlayer =
        [sampleBuf |-> <<>>,
         clock |-> 0,
         streamPaused |-> FALSE,
         playerClosed |-> FALSE,
         streamPc |-> "idle",
         samples |-> <<>>,
         samplesPlayed |-> 0,
         clockRead |-> 0,
         streamN |-> 0,
         streamOk |-> TRUE,
         consumed |-> 0,
         streamCalls |-> 0,
         nAppends |-> 0,
         nResets |-> 0,
         lastSilent |-> FALSE]

\* var speakerOnce sync.Once; var speakerInitErr error
SpeakerInit ==
    speakerDev =
        [speakerOnce |-> "new",
         speakerInitErr |-> "nil",
         speakerInits |-> 0,
         ctorPc |-> [c \in Ctors |-> "idle"],
         ctorErr |-> [c \in Ctors |-> "none"],
         ctorCalls |-> 0]

\* no writeImageDirect call yet
DirectInit ==
    directTx =
        [directData |-> <<>>,
         directOut |-> <<>>,
         directCalls |-> 0]

\* NewKittyRenderer (imageID 1, every other field zero), /dev/shm without
\* files of this process
KittyInit ==
    kitty =
        [useShm |-> FALSE,
         shmIndex |-> 0,
         lastW |-> 0,
         cellPos |-> <<0, 0>>,
         shmFiles |-> {},
         rgb |-> <<>>,
         written |-> <<>>,
         shmErr |-> "none",
         outErr |-> "none",
         renderErr |-> "none",
         shmFailures |-> 0,
         nRenders |-> 0,
         nShmSets |-> 0,
         rendererClosed |-> FALSE]

\* NewAVPlayer: no slots, no session
GifInit ==
    gifs =
        [gifSlots |-> <<>>,
         gifLive |-> FALSE,
         visibleGifs |-> <<>>,
         gifDeleted |-> {},
         gifNow |-> 0,
         nGifSets |-> 0]

\* the goroutines that call Download
Downloaders == 1..NDownloaders

\* initStorage: empty cache, no download in flight
DownloadInit ==
    downloads =
        [cached |-> FALSE,
         inProgress |-> 0,
         chans |-> 0,
         closedChans |-> {},
         dlPc |-> [d \in Downloaders |-> "idle"],
         dlWait |-> [d \in Downloaders |-> 0],
         dlDone |-> [d \in Downloaders |-> 0],
         dlRet |-> [d \in Downloaders |-> "none"],
         dlCalls |-> 0]

\* a component that has not been constructed
NotBuilt == <<>>

\* no decoder has been built, none has failed to build
DecoderInit ==
    videoDecoder =
        [built |-> FALSE,
         failed |-> FALSE,
         goos |-> "linux",
         configs |-> <<>>,
         creatable |-> {},
         useHardware |-> FALSE,
         hwType |-> "none",
         srcWidth |-> 0, srcHeight |-> 0,
         dstWidth |-> 0, dstHeight |-> 0,
         maxW |-> 0, maxH |-> 0,
         nSizes |-> 0]

\* initStorage: fifoMap empty, the cache directory emptied
CacheInit ==
    cache =
        [fifoList |-> <<>>,
         fifoMap |-> {},
         files |-> {},
         cur |-> 0,
         evicted |-> <<>>,
         lastErr |-> "none",
         nCalls |-> 0]

\* no Stop() has been called, and the audio device has played nothing of
\* any session
CallsInit ==
    calls = [stopped |-> {},
             delivered |-> [s \in 1..SessionRuns + FacadeRuns |-> 0]]

\* a playSession that newPlaySession has not built yet
NoSession ==
    [audio |-> "none", audioField |-> "nil",
     video |-> "none", videoField |-> "nil",
     cleaning |-> FALSE, visible |-> <<>>]

\* NewAVPlayer: no session, no slots, nothing playing, volume 1; no call
\* has been made
FacadeInit ==
    facade =
        [session |-> 0,
         playing |-> FALSE,
         paused |-> FALSE,
         muted |-> FALSE,
         volume |-> 1,
         size |-> 0,
         gifSlots |-> <<>>,
         sess |-> [i \in 1..CtlSessions |-> NoSession],
         made |-> 0,
         ppc |-> "idle",
         psess |-> 0,
         pslots |-> <<>>,
         upc |-> "idle",
         uop |-> "none",
         us |-> 0,
         uslots |-> <<>>,
         nCalls |-> 0,
         late |-> {}]

\* the one component a specification is about is constructed, the others
\* are not; a playback session is checked with none of them
CompInit(built) ==
    /\ IF built = "stream" THEN StreamInit ELSE audioPlayer = NotBuilt
    /\ IF built = "speaker" THEN SpeakerInit ELSE speakerDev = NotBuilt
    /\ IF built = "direct" THEN DirectInit ELSE directTx = NotBuilt
    /\ IF built = "kitty" THEN KittyInit ELSE kitty = NotBuilt
    /\ IF built = "gifs" THEN GifInit ELSE gifs = NotBuilt
    /\ IF built = "downloads" THEN DownloadInit ELSE downloads = NotBuilt
    /\ IF built = "calls" THEN CallsInit ELSE calls = NotBuilt
    /\ IF built = "facade" THEN FacadeInit ELSE facade = NotBuilt
    /\ IF built = "decoder" THEN DecoderInit ELSE videoDecoder = NotBuilt
    /\ IF built = "cache" THEN CacheInit ELSE cache = NotBuilt

InitWith(e) ==
    /\ env = e
    /\ CompInit(e.built)
    /\ playing = FALSE /\ paused = FALSE /\ playMu = 0 /\ session = 0
    /\ renderer = "nil"
    /\ pc = [t \in Players |-> "idle"]
    /\ result = [t \in Players |-> "none"]
    /\ panicking = [t \in Players |-> FALSE]
    /\ sid = [t \in Players |-> 0]
    /\ status = [t \in Players |-> "none"]
    /\ audio = [t \in Players |-> "none"]
    /\ audioPaused = [t \in Players |-> FALSE]
    /\ audioPlaying = [t \in Players |-> FALSE]
    /\ video = [t \in Players |-> "none"]
    /\ demuxer = [t \in Players |-> "none"]
    /\ audioPktChField = [t \in Players |-> "nil"]
    /\ videoPktCh = [t \in Players |-> <<>>]
    /\ videoClosed = [t \in Players |-> 0]
    /\ audioPktCh = [t \in Players |-> <<>>]
    /\ audioClosed = [t \in Players |-> 0]
    /\ stopCh = [t \in Players |-> "open"]
    /\ stopOnce = [t \in Players |-> FALSE]
    /\ pkt = [t \in Players |-> 0]
    /\ frameDiff = [t \in Players |-> 0]
    /\ slept = [t \in Players |-> 0]
    /\ loopErr = [t \in Players |-> "nil"]
    /\ demuxPc = [t \in Players |-> "off"]
    /\ demuxPkt = [t \in Players |-> 0]
    /\ readPos = [t \in Players |-> 0]
    /\ isVideo = [t \in Players |-> {}]
    /\ audioPc = [t \in Players |-> "off"]
    /\ audioRange = [t \in Players |-> "unset"]
    /\ audioErr = [t \in Players |-> "nil"]
    /\ cpc = "idle" /\ cSession = 0 /\ ctlOps = 0
    /\ nsessions = 0
    /\ freed = [t \in Players |-> NoFrees]
    /\ cloned = [t \in Players |-> {}]
    /\ cloneFreed = [t \in Players |-> NoFrees]
    /\ taken = [t \in Players |-> <<>>]
    /\ decoded = [t \in Players |-> <<>>]
    /\ nFrames = [t \in Players |-> 0]
    /\ nRendered = [t \in Players |-> 0]
    /\ nDropped = [t \in Players |-> 0]
    /\ stopSeen = FALSE /\ stopInPause = FALSE
    /\ closeInvoked = FALSE /\ closeReturned = FALSE
    /\ lateFrame = FALSE /\ sentAfterClose = FALSE
    /\ sessionsRun = [t \in Players |-> 0]
    /\ crashed = FALSE

\* ---------------------------------------------------------------- Play
\* A goroutine calls p.Play(videoPath, pfpPath).  The application makes no
\* Play call once it has begun Close (tui/model.go quits after Close).
PlayInvoke(t) ==
    /\ ~crashed /\ pc[t] = "idle" /\ t \in env.callers /\ ~closeInvoked
    /\ pc' = [pc EXCEPT ![t] = "lock"]
    /\ UNCHANGED <<playerVars, result, panicking, sessVars, queueVars,
                   renderVars, demuxVars, audioVars, ctlVars, pktHist, callHist>>

\* Play as it would be without the play lock
PlayLockNoMutex(t) ==
    /\ ~crashed /\ pc[t] = "lock"
    /\ playMu' = t
    /\ playing' = TRUE
    /\ paused' = FALSE
    /\ stopSeen' = FALSE
    /\ stopInPause' = FALSE
    /\ pc' = [pc EXCEPT ![t] = "loop"]
    /\ UNCHANGED <<session, renderer, result, panicking,
                   sessVars, queueVars, renderVars, demuxVars, audioVars,
                   ctlVars, pktHist, env, compVars, nsessions, closeInvoked, closeReturned,
                   lateFrame, sentAfterClose, sessionsRun, crashed>>

\* p.playMu.Lock(); defer p.playMu.Unlock();
\* p.playing.Store(true); p.paused.Store(false)
PlayLock(t) ==
    /\ ~crashed /\ pc[t] = "lock" /\ playMu = 0
    /\ playMu' = t
    /\ playing' = TRUE
    /\ paused' = FALSE
    /\ stopSeen' = FALSE
    /\ stopInPause' = FALSE
    /\ pc' = [pc EXCEPT ![t] = "loop"]
    /\ UNCHANGED <<session, renderer, result, panicking,
                   sessVars, queueVars, renderVars, demuxVars, audioVars,
                   ctlVars, pktHist, env, compVars, nsessions, closeInvoked, closeReturned,
                   lateFrame, sentAfterClose, sessionsRun, crashed>>

\* a Play that returns nil after its first session instead of replaying
PlayLoopOnce(t) ==
    /\ ~crashed /\ pc[t] = "loop"
    /\ IF playing /\ sessionsRun[t] = 0
         THEN /\ pc' = [pc EXCEPT ![t] = "new"]
              /\ UNCHANGED result
         ELSE /\ pc' = [pc EXCEPT ![t] = "unlock"]
              /\ result' = [result EXCEPT ![t] = "nil"]
    /\ UNCHANGED <<playerVars, panicking, sessVars, queueVars, renderVars,
                   demuxVars, audioVars, ctlVars, pktHist, callHist>>

\* for p.playing.Load() { ... } return nil
PlayLoop(t) ==
    /\ ~crashed /\ pc[t] = "loop"
    /\ IF playing
         THEN /\ pc' = [pc EXCEPT ![t] = "new"]
              /\ UNCHANGED result
         ELSE /\ pc' = [pc EXCEPT ![t] = "unlock"]
              /\ result' = [result EXCEPT ![t] = "nil"]
    /\ UNCHANGED <<playerVars, panicking, sessVars, queueVars, renderVars,
                   demuxVars, audioVars, ctlVars, pktHist, callHist>>

\* the fields of a freshly constructed playSession in slot t
FreshSession(t, s, a) ==
    /\ sid' = [sid EXCEPT ![t] = s]
    /\ status' = [status EXCEPT ![t] = "active"]
    /\ audio' = [audio EXCEPT ![t] = a]
    /\ audioPaused' = [audioPaused EXCEPT ![t] = FALSE]
    /\ audioPlaying' = [audioPlaying EXCEPT ![t] = FALSE]
    /\ video' = [video EXCEPT ![t] = "open"]
    /\ demuxer' = [demuxer EXCEPT ![t] = "open"]
    /\ audioPktChField' = [audioPktChField EXCEPT
                              ![t] = IF a = "open" THEN "chan" ELSE "nil"]
    /\ videoPktCh' = [videoPktCh EXCEPT ![t] = <<>>]
    /\ videoClosed' = [videoClosed EXCEPT ![t] = 0]
    /\ audioPktCh' = [audioPktCh EXCEPT ![t] = <<>>]
    /\ audioClosed' = [audioClosed EXCEPT ![t] = 0]
    /\ stopCh' = [stopCh EXCEPT ![t] = "open"]
    /\ stopOnce' = [stopOnce EXCEPT ![t] = FALSE]
    /\ pkt' = [pkt EXCEPT ![t] = 0]
    /\ loopErr' = [loopErr EXCEPT ![t] = "nil"]
    /\ frameDiff' = [frameDiff EXCEPT ![t] = 0]
    /\ slept' = [slept EXCEPT ![t] = 0]
    /\ demuxPc' = [demuxPc EXCEPT ![t] = "off"]
    /\ demuxPkt' = [demuxPkt EXCEPT ![t] = 0]
    /\ readPos' = [readPos EXCEPT ![t] = 0]
    /\ isVideo' = [isVideo EXCEPT ![t] = {}]
    /\ audioPc' = [audioPc EXCEPT ![t] = "off"]
    /\ audioRange' = [audioRange EXCEPT ![t] = "unset"]
    /\ audioErr' = [audioErr EXCEPT ![t] = "nil"]
    /\ freed' = [freed EXCEPT ![t] = NoFrees]
    /\ cloned' = [cloned EXCEPT ![t] = {}]
    /\ cloneFreed' = [cloneFreed EXCEPT ![t] = NoFrees]
    /\ taken' = [taken EXCEPT ![t] = <<>>]
    /\ decoded' = [decoded EXCEPT ![t] = <<>>]
    /\ nFrames' = [nFrames EXCEPT ![t] = 0]
    /\ nRendered' = [nRendered EXCEPT ![t] = 0]
    /\ nDropped' = [nDropped EXCEPT ![t] = 0]

\* cfg := p.sessionConfig(), which makes the renderer on first use, then
\* session, err := newPlaySession(...): NewDemuxer or NewVideoDecoder fails
\* and playOnce returns the error, or the session is built.  The audio
\* player is nil when the file has no audio stream ("none") or when
\* NewAudioPlayer failed ("failed": the error is dropped, audio = nil).
NewPlaySession(t) ==
    /\ ~crashed /\ pc[t] = "new"
    /\ renderer' = "live"
    /\ \/ /\ pc' = [pc EXCEPT ![t] = "unlock"]
          /\ result' = [result EXCEPT ![t] = "err"]
          /\ loopErr' = [loopErr EXCEPT ![t] = "open"]
          /\ UNCHANGED <<sessVars, queueVars, pkt, frameVars, demuxVars,
                         audioVars, pktHist, nsessions>>
       \/ /\ nsessions < env.runs
          /\ \E a \in env.audios :
                FreshSession(t, nsessions + 1, a)
          /\ nsessions' = nsessions + 1
          /\ pc' = [pc EXCEPT ![t] = "set_session"]
          /\ UNCHANGED result
    /\ UNCHANGED <<playing, paused, playMu, session, panicking, ctlVars,
                   env, compVars, stopSeen, stopInPause, closeInvoked, closeReturned, lateFrame,
                   sentAfterClose, sessionsRun, crashed>>

\* p.setSession(session), then run() up to the render loop:
\* go audioDecodeLoop; s.audio.Start(); go demuxLoop.
\* AudioPlayer.Start stores into a.playing, so with a nil s.audio it is a
\* nil-pointer dereference: run panics before the demux goroutine is
\* started, and the deferred calls of playOnce and Play unwind.
RunStart(t) ==
    /\ ~crashed /\ pc[t] = "set_session"
    /\ session' = sid[t]
    /\ audioPc' = [audioPc EXCEPT ![t] = "start"]
    /\ IF audio[t] = "open"
         THEN /\ audioPlaying' = [audioPlaying EXCEPT ![t] = TRUE]
              /\ demuxPc' = [demuxPc EXCEPT ![t] = "check"]
              /\ pc' = [pc EXCEPT ![t] = "r_recv"]
              /\ UNCHANGED panicking
         ELSE /\ panicking' = [panicking EXCEPT ![t] = TRUE]
              /\ pc' = [pc EXCEPT ![t] = "clear_session"]
              /\ UNCHANGED <<audioPlaying, demuxPc>>
    /\ UNCHANGED <<playing, paused, playMu, renderer, result, sid, status,
                   audio, audioPaused, video, demuxer, audioPktChField, stopCh,
                   stopOnce, queueVars, renderVars, demuxPkt, readPos, isVideo,
                   audioRange, audioErr, ctlVars, pktHist, callHist>>

\* ---------------------------------------------------------------- render loop
\* for pkt := range s.videoPktCh: take the next packet, or leave the loop
\* (return nil) once the channel is closed and drained.
RenderRecv(t) ==
    /\ ~crashed /\ pc[t] = "r_recv"
    /\ \/ /\ videoPktCh[t] # <<>>
          /\ pkt' = [pkt EXCEPT ![t] = Head(videoPktCh[t])]
          /\ videoPktCh' = [videoPktCh EXCEPT ![t] = Tail(@)]
          /\ taken' = [taken EXCEPT ![t] = Append(@, Head(videoPktCh[t]))]
          /\ pc' = [pc EXCEPT ![t] = "r_playing"]
          /\ UNCHANGED loopErr
       \/ /\ videoPktCh[t] = <<>> /\ videoClosed[t] > 0
          /\ loopErr' = [loopErr EXCEPT ![t] = "nil"]
          /\ pc' = [pc EXCEPT ![t] = "wait_demux"]
          /\ UNCHANGED <<pkt, videoPktCh, taken>>
    /\ UNCHANGED <<playerVars, result, panicking, sessVars, frameVars, videoClosed,
                   audioPktCh, audioClosed, demuxVars, audioVars, ctlVars,
                   freed, cloned, cloneFreed, decoded, frameHist, callHist>>

\* if !p.playing.Load() { pkt.Free(); continue }
RenderCheckPlaying(t) ==
    /\ ~crashed /\ pc[t] = "r_playing"
    /\ IF playing
         THEN /\ pc' = [pc EXCEPT ![t] = "r_paused"]
              /\ UNCHANGED <<pkt, freed>>
         ELSE /\ freed' = [freed EXCEPT ![t] = Free(@, pkt[t])]
              /\ pkt' = [pkt EXCEPT ![t] = 0]
              /\ pc' = [pc EXCEPT ![t] = "r_recv"]
    /\ UNCHANGED <<playerVars, result, panicking, sessVars, frameVars, queueVars, loopErr,
                   demuxVars, audioVars, ctlVars, cloned, cloneFreed, taken,
                   decoded, frameHist, callHist>>

\* time.Sleep(50ms); if !p.playing.Load() { pkt.Free(); return nil }
RenderSleep(t) ==
    /\ ~crashed /\ pc[t] = "r_sleep"
    /\ IF playing
         THEN /\ pc' = [pc EXCEPT ![t] = "r_paused"]
              /\ UNCHANGED <<pkt, freed, loopErr>>
         ELSE /\ freed' = [freed EXCEPT ![t] = Free(@, pkt[t])]
              /\ pkt' = [pkt EXCEPT ![t] = 0]
              /\ loopErr' = [loopErr EXCEPT ![t] = "nil"]
              /\ pc' = [pc EXCEPT ![t] = "wait_demux"]
    /\ UNCHANGED <<playerVars, result, panicking, sessVars, frameVars, queueVars,
                   demuxVars, audioVars, ctlVars, cloned, cloneFreed, taken,
                   decoded, frameHist, callHist>>

\* one more frame in a counter of frameHist; the counters are kept in the
\* specification that accounts for frames (env.frames)
Count(n) == IF env.frames THEN n + 1 ELSE n

\* s.audio.IsPlaying(): a.playing.Load() && !a.paused.Load()
IsPlaying(t) == audio[t] = "open" /\ audioPlaying[t] /\ ~audioPaused[t]

\* VideoDecoder.DecodePacket by the step at which it ends: SendPacket fails;
\* ReceiveFrame has no frame yet (EAGAIN/EOF) or fails; initSwsContext,
\* ScaleFrame or the RGB copy fails; or the frame is returned.
DecodePacketResult(path) ==
    CASE path = "ok" -> "frame"
      [] path = "no_frame" -> "nil"
      [] OTHER -> "err"

\* frame, err := s.video.DecodePacket(pkt); pkt.Free();
\* err -> return the error; frame == nil -> continue; else go on to the sync
\* rule with the frame, diff being frame.PTS - audioTime in milliseconds
DecodeStep(t, path, diff) ==
    /\ decoded' = [decoded EXCEPT ![t] = Append(@, pkt[t])]
    /\ freed' = [freed EXCEPT ![t] = Free(@, pkt[t])]
    /\ pkt' = [pkt EXCEPT ![t] = 0]
    /\ pc' = [pc EXCEPT ![t] =
                CASE DecodePacketResult(path) = "err" -> "wait_demux"
                  [] DecodePacketResult(path) = "nil" -> "r_recv"
                  [] OTHER -> "r_sync"]
    /\ loopErr' = [loopErr EXCEPT
                      ![t] = IF DecodePacketResult(path) = "err" THEN path ELSE @]
    /\ IF DecodePacketResult(path) = "frame"
         THEN /\ frameDiff' = [frameDiff EXCEPT ![t] = diff]
              /\ nFrames' = [nFrames EXCEPT ![t] = Count(@)]
         ELSE UNCHANGED <<frameDiff, nFrames>>
    /\ UNCHANGED <<slept, nRendered, nDropped>>

\* a render loop that drops the packet it holds when playback is paused
RenderDecodeSkip(t) ==
    /\ ~crashed /\ pc[t] = "r_paused"
    /\ IF paused
         THEN /\ freed' = [freed EXCEPT ![t] = Free(@, pkt[t])]
              /\ pkt' = [pkt EXCEPT ![t] = 0]
              /\ pc' = [pc EXCEPT ![t] = "r_recv"]
              /\ UNCHANGED <<loopErr, frameVars, decoded, frameHist>>
         ELSE \E path \in env.vpaths, diff \in env.diffs :
                 DecodeStep(t, path, diff)
    /\ UNCHANGED <<playerVars, result, panicking, sessVars, queueVars,
                   demuxVars, audioVars, ctlVars, cloned, cloneFreed, taken,
                   callHist>>

\* for p.paused.Load() { sleep ... }; once not paused the packet is decoded
RenderDecode(t) ==
    /\ ~crashed /\ pc[t] = "r_paused"
    /\ IF paused
         THEN /\ pc' = [pc EXCEPT ![t] = "r_sleep"]
              /\ UNCHANGED <<pkt, frameVars, loopErr, decoded, frameHist, freed>>
         ELSE \E path \in env.vpaths, diff \in env.diffs :
                 DecodeStep(t, path, diff)
    /\ UNCHANGED <<playerVars, result, panicking, sessVars, queueVars,
                   demuxVars, audioVars, ctlVars, cloned, cloneFreed, taken,
                   callHist>>

\* time.Duration(diff * float64(time.Second) * 0.2), in milliseconds
SyncSleep(diff) == (diff * 2) \div 10

\* the frame in hand is kept for RenderFrame after a sleep of ms
KeepFrame(t, ms) ==
    /\ slept' = [slept EXCEPT ![t] = ms]
    /\ pc' = [pc EXCEPT ![t] = "r_render"]
    /\ UNCHANGED <<frameDiff, frameHist>>

\* the frame in hand is dropped: continue
DropFrame(t) ==
    /\ nDropped' = [nDropped EXCEPT ![t] = Count(@)]
    /\ frameDiff' = [frameDiff EXCEPT ![t] = 0]
    /\ pc' = [pc EXCEPT ![t] = "r_recv"]
    /\ UNCHANGED <<slept, nFrames, nRendered>>

\* a sync rule that sleeps the whole difference for a frame ahead of audio
RenderSyncFullSleep(t) ==
    /\ ~crashed /\ pc[t] = "r_sync"
    /\ IF IsPlaying(t)
         THEN IF frameDiff[t] > SyncThreshold
                THEN KeepFrame(t, frameDiff[t])
                ELSE IF frameDiff[t] < -SyncThreshold
                       THEN DropFrame(t)
                       ELSE KeepFrame(t, 0)
         ELSE KeepFrame(t, Paced)
    /\ UNCHANGED <<playerVars, result, panicking, sessVars, queueVars, pkt,
                   loopErr, demuxVars, audioVars, ctlVars, freed, cloned,
                   cloneFreed, taken, decoded, callHist>>

\* a sync rule that drops every frame behind the audio clock
RenderSyncNoThreshold(t) ==
    /\ ~crashed /\ pc[t] = "r_sync"
    /\ IF IsPlaying(t)
         THEN IF frameDiff[t] > SyncThreshold
                THEN KeepFrame(t, SyncSleep(frameDiff[t]))
                ELSE IF frameDiff[t] < 0
                       THEN DropFrame(t)
                       ELSE KeepFrame(t, 0)
         ELSE KeepFrame(t, Paced)
    /\ UNCHANGED <<playerVars, result, panicking, sessVars, queueVars, pkt,
                   loopErr, demuxVars, audioVars, ctlVars, freed, cloned,
                   cloneFreed, taken, decoded, callHist>>

\* a sync rule whose drop branch lacks the continue: the dropped frame goes
\* on to the renderer
RenderSyncNoContinue(t) ==
    /\ ~crashed /\ pc[t] = "r_sync"
    /\ IF IsPlaying(t)
         THEN IF frameDiff[t] > SyncThreshold
                THEN KeepFrame(t, SyncSleep(frameDiff[t]))
                ELSE IF frameDiff[t] < -SyncThreshold
                       THEN /\ nDropped' = [nDropped EXCEPT ![t] = Count(@)]
                            /\ pc' = [pc EXCEPT ![t] = "r_render"]
                            /\ UNCHANGED <<frameVars, nFrames, nRendered>>
                       ELSE KeepFrame(t, 0)
         ELSE KeepFrame(t, Paced)
    /\ UNCHANGED <<playerVars, result, panicking, sessVars, queueVars, pkt,
                   loopErr, demuxVars, audioVars, ctlVars, freed, cloned,
                   cloneFreed, taken, decoded, callHist>>

\* the sync rule: if s.audio != nil && s.audio.IsPlaying() {
\*   diff := frame.PTS - audioTime
\*   if diff > SyncThreshold { sleep 0.2 * diff }
\*   else if diff < -SyncThreshold { continue } }
\* else { pace the frame by frameDuration since the last frame }
RenderSync(t) ==
    /\ ~crashed /\ pc[t] = "r_sync"
    /\ IF IsPlaying(t)
         THEN IF frameDiff[t] > SyncThreshold
                THEN KeepFrame(t, SyncSleep(frameDiff[t]))
                ELSE IF frameDiff[t] < -SyncThreshold
                       THEN DropFrame(t)
                       ELSE KeepFrame(t, 0)
         ELSE KeepFrame(t, Paced)
    /\ UNCHANGED <<playerVars, result, panicking, sessVars, queueVars, pkt,
                   loopErr, demuxVars, audioVars, ctlVars, freed, cloned,
                   cloneFreed, taken, decoded, callHist>>

\* s.renderer.RenderFrame(...): the frame is written to the output, or the
\* write fails and the loop returns the render error.
RenderFrame(t) ==
    /\ ~crashed /\ pc[t] = "r_render"
    /\ nRendered' = [nRendered EXCEPT ![t] = Count(@)]
    /\ frameDiff' = [frameDiff EXCEPT ![t] = 0]
    /\ slept' = [slept EXCEPT ![t] = 0]
    /\ \/ /\ lateFrame' = (lateFrame \/ closeReturned)
          /\ pc' = [pc EXCEPT ![t] = "r_recv"]
          /\ UNCHANGED loopErr
       \/ /\ loopErr' = [loopErr EXCEPT ![t] = "render"]
          /\ pc' = [pc EXCEPT ![t] = "wait_demux"]
          /\ UNCHANGED lateFrame
    /\ UNCHANGED <<playerVars, result, panicking, sessVars, queueVars, pkt,
                   demuxVars, audioVars, ctlVars, freed, cloned, cloneFreed,
                   taken, decoded, nFrames, nDropped, env, compVars, nsessions,
                   stopSeen, stopInPause, closeInvoked, closeReturned,
                   sentAfterClose, sessionsRun, crashed>>

\* ---------------------------------------------------------------- run(), after the loop
\* run() closing the audio queue without joining the demux goroutine
CloseAudioQueueNoWait(t) ==
    /\ ~crashed /\ pc[t] = "wait_demux"
    /\ IF audioPktChField[t] = "chan"
         THEN /\ audioClosed' = [audioClosed EXCEPT ![t] = Cap2(@ + 1)]
              /\ audioPktChField' = [audioPktChField EXCEPT ![t] = "nil"]
         ELSE UNCHANGED <<audioClosed, audioPktChField>>
    /\ pc' = [pc EXCEPT ![t] = "wait_audio"]
    /\ UNCHANGED <<playerVars, result, panicking, sid, status, audio,
                   audioPaused, audioPlaying, video, demuxer, stopCh, stopOnce,
                   videoPktCh, videoClosed, audioPktCh, renderVars, demuxVars,
                   audioVars, ctlVars, pktHist, callHist>>

\* demuxWg.Wait();
\* if s.audioPktCh != nil { close(s.audioPktCh); s.audioPktCh = nil }
CloseAudioQueue(t) ==
    /\ ~crashed /\ pc[t] = "wait_demux" /\ demuxPc[t] = "done"
    /\ IF audioPktChField[t] = "chan"
         THEN /\ audioClosed' = [audioClosed EXCEPT ![t] = Cap2(@ + 1)]
              /\ audioPktChField' = [audioPktChField EXCEPT ![t] = "nil"]
         ELSE UNCHANGED <<audioClosed, audioPktChField>>
    /\ pc' = [pc EXCEPT ![t] = "wait_audio"]
    /\ UNCHANGED <<playerVars, result, panicking, sid, status, audio,
                   audioPaused, audioPlaying, video, demuxer, stopCh, stopOnce,
                   videoPktCh, videoClosed, audioPktCh, renderVars, demuxVars,
                   audioVars, ctlVars, pktHist, callHist>>

\* run() returning without joining the audio-decode goroutine
JoinAudioNoWait(t) ==
    /\ ~crashed /\ pc[t] = "wait_audio"
    /\ pc' = [pc EXCEPT ![t] = "clear_session"]
    /\ sessionsRun' = [sessionsRun EXCEPT ![t] = Cap2(@ + 1)]
    /\ UNCHANGED <<playerVars, result, panicking, sessVars, queueVars,
                   renderVars, demuxVars, audioVars, ctlVars, pktHist,
                   env, compVars, nsessions, stopSeen, stopInPause, closeInvoked, closeReturned, lateFrame,
                   sentAfterClose, crashed>>

\* audioWg.Wait(); return err
JoinAudio(t) ==
    /\ ~crashed /\ pc[t] = "wait_audio" /\ audioPc[t] = "done"
    /\ pc' = [pc EXCEPT ![t] = "clear_session"]
    /\ sessionsRun' = [sessionsRun EXCEPT ![t] = Cap2(@ + 1)]
    /\ UNCHANGED <<playerVars, result, panicking, sessVars, queueVars,
                   renderVars, demuxVars, audioVars, ctlVars, pktHist,
                   env, compVars, nsessions, stopSeen, stopInPause, closeInvoked, closeReturned, lateFrame,
                   sentAfterClose, crashed>>

\* ---------------------------------------------------------------- playOnce's defer
\* p.clearSession(session)
ClearSession(t) ==
    /\ ~crashed /\ pc[t] = "clear_session"
    /\ session' = IF session = sid[t] THEN 0 ELSE session
    /\ pc' = [pc EXCEPT ![t] = "cleanup"]
    /\ UNCHANGED <<playing, paused, playMu, renderer, result, panicking,
                   sessVars, queueVars, renderVars, demuxVars, audioVars,
                   ctlVars, pktHist, callHist>>

\* cleanup() begins: if s.audio != nil { s.audio.Close(); s.audio = nil }
CleanupAudio(t) ==
    /\ ~crashed /\ pc[t] = "cleanup"
    /\ status' = [status EXCEPT ![t] = "cleaning"]
    /\ audio' = [audio EXCEPT ![t] = IF @ = "open" THEN "closed" ELSE @]
    /\ audioPlaying' = [audioPlaying EXCEPT ![t] = FALSE]
    /\ pc' = [pc EXCEPT ![t] = "cleanup_rest"]
    /\ UNCHANGED <<playerVars, result, panicking, sid, audioPaused, video,
                   demuxer, audioPktChField, stopCh, stopOnce, queueVars,
                   renderVars, demuxVars, audioVars, ctlVars, pktHist, callHist>>

\* The session is unreachable once cleanup has returned (a reference a
\* control call still holds finds s.audio nil and a stop channel nobody
\* reads): its slot is emptied, and the packet accounting kept for it is
\* dropped.  Goroutines that have ended are gone.
Forget(t) ==
    /\ sid' = [sid EXCEPT ![t] = 0]
    /\ audioPaused' = [audioPaused EXCEPT ![t] = FALSE]
    /\ audioPktChField' = [audioPktChField EXCEPT ![t] = "nil"]
    /\ stopCh' = [stopCh EXCEPT ![t] = "open"]
    /\ stopOnce' = [stopOnce EXCEPT ![t] = FALSE]
    /\ videoPktCh' = [videoPktCh EXCEPT ![t] = <<>>]
    /\ audioPktCh' = [audioPktCh EXCEPT ![t] = <<>>]
    /\ videoClosed' = [videoClosed EXCEPT ![t] = 0]
    /\ audioClosed' = [audioClosed EXCEPT ![t] = 0]
    /\ demuxPc' = [demuxPc EXCEPT ![t] = IF @ = "done" THEN "off" ELSE @]
    /\ audioPc' = [audioPc EXCEPT ![t] = IF @ = "done" THEN "off" ELSE @]
    /\ readPos' = [readPos EXCEPT ![t] = 0]
    /\ isVideo' = [isVideo EXCEPT ![t] = {}]
    /\ freed' = [freed EXCEPT ![t] = NoFrees]
    /\ cloned' = [cloned EXCEPT ![t] = {}]
    /\ cloneFreed' = [cloneFreed EXCEPT ![t] = NoFrees]
    /\ taken' = [taken EXCEPT ![t] = <<>>]
    /\ decoded' = [decoded EXCEPT ![t] = <<>>]
    /\ nFrames' = [nFrames EXCEPT ![t] = 0]
    /\ nRendered' = [nRendered EXCEPT ![t] = 0]
    /\ nDropped' = [nDropped EXCEPT ![t] = 0]

\* a playOnce whose teardown is skipped when run() returned an error
CleanupRestOnSuccess(t) ==
    /\ ~crashed /\ pc[t] = "cleanup_rest"
    /\ IF panicking[t]
         THEN /\ pc' = [pc EXCEPT ![t] = "unlock"]
              /\ result' = [result EXCEPT ![t] = "panic"]
              /\ video' = [video EXCEPT ![t] = "closed"]
              /\ demuxer' = [demuxer EXCEPT ![t] = "closed"]
              /\ status' = [status EXCEPT ![t] = "torn"]
         ELSE IF loopErr[t] # "nil"
                THEN /\ pc' = [pc EXCEPT ![t] = "unlock"]
                     /\ result' = [result EXCEPT ![t] = "err"]
                     /\ UNCHANGED <<video, demuxer, status>>
                ELSE /\ pc' = [pc EXCEPT ![t] = "loop"]
                     /\ video' = [video EXCEPT ![t] = "closed"]
                     /\ demuxer' = [demuxer EXCEPT ![t] = "closed"]
                     /\ status' = [status EXCEPT ![t] = "torn"]
                     /\ UNCHANGED result
    /\ Forget(t)
    /\ UNCHANGED <<playerVars, panicking, audio, audioPlaying, renderVars,
                   demuxPkt, audioRange, audioErr, ctlVars, callHist>>

\* the rest of cleanup(): s.video.Close(); s.video = nil;
\* s.demuxer.Close(); s.demuxer = nil.
\* playOnce then returns run()'s error (or keeps unwinding the panic) and
\* Play returns the error or tests p.playing again.
CleanupRest(t) ==
    /\ ~crashed /\ pc[t] = "cleanup_rest"
    /\ video' = [video EXCEPT ![t] = "closed"]
    /\ demuxer' = [demuxer EXCEPT ![t] = "closed"]
    /\ status' = [status EXCEPT ![t] = "torn"]
    /\ IF panicking[t]
         THEN /\ pc' = [pc EXCEPT ![t] = "unlock"]
              /\ result' = [result EXCEPT ![t] = "panic"]
         ELSE IF loopErr[t] # "nil"
                THEN /\ pc' = [pc EXCEPT ![t] = "unlock"]
                     /\ result' = [result EXCEPT ![t] = "err"]
                ELSE /\ pc' = [pc EXCEPT ![t] = "loop"]
                     /\ UNCHANGED result
    /\ Forget(t)
    /\ UNCHANGED <<playerVars, panicking, audio, audioPlaying, renderVars,
                   demuxPkt, audioRange, audioErr, ctlVars, callHist>>

\* the deferred p.playMu.Unlock(); Play has returned.  An unrecovered panic
\* ends the process once the deferred calls have run.
PlayUnlock(t) ==
    /\ ~crashed /\ pc[t] = "unlock"
    /\ playMu' = 0
    /\ pc' = [pc EXCEPT ![t] = "returned"]
    /\ result' = [result EXCEPT ![t] = "none"]
    /\ loopErr' = [loopErr EXCEPT ![t] = "nil"]
    /\ sessionsRun' = [sessionsRun EXCEPT ![t] = 0]
    /\ crashed' = panicking[t]
    /\ UNCHANGED <<playing, paused, session, renderer, panicking,
                   sessVars, queueVars, pkt, frameVars, demuxVars, audioVars,
                   ctlVars, pktHist, env, compVars, nsessions, stopSeen, stopInPause, closeInvoked,
                   closeReturned, lateFrame, sentAfterClose>>

\* ---------------------------------------------------------------- demuxLoop
\* for p.playing.Load() { ... }
DemuxCheck(t) ==
    /\ ~crashed /\ demuxPc[t] = "check"
    /\ demuxPc' = [demuxPc EXCEPT ![t] = IF playing THEN "read" ELSE "closing"]
    /\ UNCHANGED <<playerVars, threadVars, sessVars, queueVars, renderVars,
                   demuxPkt, readPos, isVideo, audioVars, ctlVars, pktHist,
                   callHist>>

\* an audio packet: with an audio player and an audio queue it is cloned and
\* the original freed at once; otherwise it is freed and the loop goes on
RouteAudio(t, i) ==
    IF audio[t] = "open" /\ audioPktChField[t] = "chan"
      THEN /\ cloned' = [cloned EXCEPT ![t] = @ \cup {i}]
           /\ freed' = [freed EXCEPT ![t] = Free(@, i)]
           /\ demuxPkt' = [demuxPkt EXCEPT ![t] = i]
           /\ demuxPc' = [demuxPc EXCEPT ![t] = "send_a"]
      ELSE /\ freed' = [freed EXCEPT ![t] = Free(@, i)]
           /\ demuxPc' = [demuxPc EXCEPT ![t] = "check"]
           /\ UNCHANGED <<cloned, demuxPkt>>

\* select { case <-s.stopCh: return; default: }, then
\* pkt, isVideo, err := s.demuxer.ReadPacket(): end of stream or a read
\* error (a closed demuxer included) ends the loop; otherwise the packet is
\* a video packet or an audio packet.
DemuxRead(t) ==
    /\ ~crashed /\ demuxPc[t] = "read"
    /\ \/ /\ demuxPc' = [demuxPc EXCEPT ![t] = "closing"]
          /\ UNCHANGED <<demuxPkt, readPos, isVideo, freed, cloned>>
       \/ /\ stopCh[t] = "open" /\ demuxer[t] = "open" /\ readPos[t] < env.pkts
          /\ readPos' = [readPos EXCEPT ![t] = @ + 1]
          /\ \/ /\ isVideo' = [isVideo EXCEPT ![t] = @ \cup {readPos[t] + 1}]
                /\ demuxPkt' = [demuxPkt EXCEPT ![t] = readPos[t] + 1]
                /\ demuxPc' = [demuxPc EXCEPT ![t] = "send_v"]
                /\ UNCHANGED <<freed, cloned>>
             \/ /\ RouteAudio(t, readPos[t] + 1)
                /\ UNCHANGED isVideo
    /\ UNCHANGED <<playerVars, threadVars, sessVars, queueVars, renderVars,
                   audioVars, ctlVars, cloneFreed, taken, decoded, frameHist, callHist>>

\* select { case s.videoPktCh <- pkt:  case <-s.stopCh: pkt.Free(); return }
DemuxSendVideo(t) ==
    /\ ~crashed /\ demuxPc[t] = "send_v"
    /\ \/ /\ Len(videoPktCh[t]) < VideoQueueCap
          /\ videoPktCh' = [videoPktCh EXCEPT ![t] = Append(@, demuxPkt[t])]
          /\ sentAfterClose' = (sentAfterClose \/ videoClosed[t] > 0)
          /\ demuxPc' = [demuxPc EXCEPT ![t] = "check"]
          /\ UNCHANGED freed
       \/ /\ stopCh[t] = "closed"
          /\ freed' = [freed EXCEPT ![t] = Free(@, demuxPkt[t])]
          /\ demuxPc' = [demuxPc EXCEPT ![t] = "closing"]
          /\ UNCHANGED <<videoPktCh, sentAfterClose>>
    /\ demuxPkt' = [demuxPkt EXCEPT ![t] = 0]
    /\ UNCHANGED <<playerVars, threadVars, sessVars, videoClosed, audioPktCh,
                   audioClosed, renderVars, readPos, isVideo, audioVars,
                   ctlVars, cloned, cloneFreed, taken, decoded, frameHist, env, compVars, nsessions,
                   stopSeen, stopInPause, closeInvoked, closeReturned, lateFrame,
                   sessionsRun, crashed>>

\* a demux loop that abandons a send on stop without freeing the clone
DemuxSendAudioLeak(t) ==
    /\ ~crashed /\ demuxPc[t] = "send_a"
    /\ \/ /\ Len(audioPktCh[t]) < AudioQueueCap
          /\ audioPktCh' = [audioPktCh EXCEPT ![t] = Append(@, demuxPkt[t])]
          /\ sentAfterClose' = (sentAfterClose \/ audioClosed[t] > 0)
          /\ demuxPc' = [demuxPc EXCEPT ![t] = "check"]
       \/ /\ stopCh[t] = "closed"
          /\ demuxPc' = [demuxPc EXCEPT ![t] = "closing"]
          /\ UNCHANGED <<audioPktCh, sentAfterClose>>
    /\ demuxPkt' = [demuxPkt EXCEPT ![t] = 0]
    /\ UNCHANGED <<playerVars, threadVars, sessVars, videoPktCh, videoClosed,
                   audioClosed, renderVars, readPos, isVideo, audioVars,
                   ctlVars, pktHist, env, compVars, nsessions,
                   stopSeen, stopInPause, closeInvoked, closeReturned, lateFrame,
                   sessionsRun, crashed>>

\* select { case s.audioPktCh <- &audioPacket{clonedPkt, pts}:
\*          case <-s.stopCh: clonedPkt.Free(); return }
DemuxSendAudio(t) ==
    /\ ~crashed /\ demuxPc[t] = "send_a"
    /\ \/ /\ Len(audioPktCh[t]) < AudioQueueCap
          /\ audioPktCh' = [audioPktCh EXCEPT ![t] = Append(@, demuxPkt[t])]
          /\ sentAfterClose' = (sentAfterClose \/ audioClosed[t] > 0)
          /\ demuxPc' = [demuxPc EXCEPT ![t] = "check"]
          /\ UNCHANGED cloneFreed
       \/ /\ stopCh[t] = "closed"
          /\ cloneFreed' = [cloneFreed EXCEPT ![t] = Free(@, demuxPkt[t])]
          /\ demuxPc' = [demuxPc EXCEPT ![t] = "closing"]
          /\ UNCHANGED <<audioPktCh, sentAfterClose>>
    /\ demuxPkt' = [demuxPkt EXCEPT ![t] = 0]
    /\ UNCHANGED <<playerVars, threadVars, sessVars, videoPktCh, videoClosed,
                   audioClosed, renderVars, readPos, isVideo, audioVars,
                   ctlVars, freed, cloned, taken, decoded, frameHist, env, compVars, nsessions,
                   stopSeen, stopInPause, closeInvoked, closeReturned, lateFrame,
                   sessionsRun, crashed>>

\* defer close(s.videoPktCh), then demuxWg.Done()
DemuxClose(t) ==
    /\ ~crashed /\ demuxPc[t] = "closing"
    /\ videoClosed' = [videoClosed EXCEPT ![t] = Cap2(@ + 1)]
    /\ demuxPc' = [demuxPc EXCEPT ![t] = "done"]
    /\ UNCHANGED <<playerVars, threadVars, sessVars, videoPktCh, audioPktCh,
                   audioClosed, renderVars, demuxPkt, readPos, isVideo,
                   audioVars, ctlVars, pktHist, callHist>>

\* ---------------------------------------------------------------- audioDecodeLoop
\* The goroutine evaluates s.audioPktCh when it first runs.  run() writes
\* nil to that field without synchronising with this read, so the goroutine
\* ranges over the channel or, if it reads the field late, over nil.
AudioRangeStart(t) ==
    /\ ~crashed /\ audioPc[t] = "start"
    /\ audioRange' = [audioRange EXCEPT ![t] = audioPktChField[t]]
    /\ audioPc' = [audioPc EXCEPT ![t] = "recv"]
    /\ UNCHANGED <<playerVars, threadVars, sessVars, queueVars, renderVars,
                   demuxVars, audioErr, ctlVars, pktHist, callHist>>

\* AudioPlayer.DecodePacket by the way it ends: SendPacket or ReceiveFrame
\* fails and the error is returned; a frame whose output buffer cannot be
\* allocated or that fails to resample is skipped; it returns nil otherwise.
AudioDecodeResult(path) ==
    IF path \in {"send_fail", "receive_fail"} THEN "err" ELSE "nil"

\* for apkt := range s.audioPktCh (a nil channel blocks for ever):
\* s.audio.DecodePacket(apkt.pkt, apkt.pts); apkt.pkt.Free();
\* the loop and the goroutine end when the channel is closed and drained.
AudioRecv(t) ==
    /\ ~crashed /\ audioPc[t] = "recv" /\ audioRange[t] = "chan"
    /\ \/ /\ audioPktCh[t] # <<>>
          /\ audioPktCh' = [audioPktCh EXCEPT ![t] = Tail(@)]
          /\ cloneFreed' = [cloneFreed EXCEPT
                               ![t] = Free(@, Head(audioPktCh[t]))]
          /\ \E path \in env.apaths :
                audioErr' = [audioErr EXCEPT
                                ![t] = IF AudioDecodeResult(path) = "err"
                                         THEN path ELSE @]
          /\ UNCHANGED audioPc
       \/ /\ audioPktCh[t] = <<>> /\ audioClosed[t] > 0
          /\ audioPc' = [audioPc EXCEPT ![t] = "done"]
          /\ UNCHANGED <<audioPktCh, cloneFreed, audioErr>>
    /\ UNCHANGED <<playerVars, threadVars, sessVars, videoPktCh, videoClosed,
                   audioClosed, renderVars, demuxVars, audioRange, ctlVars,
                   freed, cloned, taken, decoded, frameHist, callHist>>

\* ---------------------------------------------------------------- UI calls
\* The UI goroutine makes its next call: Stop(), Pause() or, as its last
\* call, Close(), which begins with Stop().
\* Stop(): p.playing.Store(false)
StopBegin(closing) ==
    /\ ~crashed /\ cpc = "idle" /\ ctlOps < env.ctl
    /\ ctlOps' = ctlOps + 1
    /\ closeInvoked' = closing
    /\ playing' = FALSE
    /\ stopSeen' = TRUE
    /\ stopInPause' = (paused /\ \E t \in Players :
                          pc[t] \in {"r_recv", "r_playing", "r_paused",
                                    "r_sleep", "r_sync", "r_render"})
    /\ cpc' = "stop_with"
    /\ calls' = IF env.built = "calls"
                  THEN [calls EXCEPT
                           !.stopped = {t \in Players :
                                          pc[t] \notin {"idle", "returned"}}]
                  ELSE calls
    /\ UNCHANGED <<paused, playMu, session, renderer, threadVars, sessVars,
                   queueVars, renderVars, demuxVars, audioVars, cSession,
                   pktHist, env, builtVars, nsessions, closeReturned, lateFrame,
                   sentAfterClose, sessionsRun, crashed>>

StopStore == StopBegin(FALSE)

\* Close(): p.Stop()
CloseStop == StopBegin(TRUE)

\* where the UI goroutine goes when Stop() returns: back to the caller, or
\* on to the rest of Close()
AfterStop == IF closeInvoked THEN "close_lock" ELSE "idle"

\* withSession: s := p.session under sessionMu; fn(s) only if s != nil
StopWithSession ==
    /\ ~crashed /\ cpc = "stop_with"
    /\ cSession' = session
    /\ cpc' = IF session = 0 THEN AfterStop ELSE "stop_call"
    /\ UNCHANGED <<playerVars, threadVars, sessVars, queueVars, renderVars,
                   demuxVars, audioVars, ctlOps, pktHist, callHist>>

\* close(ch): closing a channel that is already closed panics
CloseChan(ch) == IF ch = "open" THEN "closed" ELSE "panic"

\* a stop() that closes the stop channel on every call
stopEveryCall(s) ==
    /\ stopOnce' = [t \in Players |-> IF Holds(t, s) THEN TRUE ELSE stopOnce[t]]
    /\ stopCh' = [t \in Players |->
                    IF Holds(t, s) THEN CloseChan(stopCh[t]) ELSE stopCh[t]]

\* s.stop(): stopOnce.Do(func() { if s.stopCh != nil { close(s.stopCh) } });
\* sync.Once runs the function for the first call only, and one call at a
\* time, so concurrent calls act as sequential ones.
stop(s) ==
    /\ stopOnce' = [t \in Players |-> IF Holds(t, s) THEN TRUE ELSE stopOnce[t]]
    /\ stopCh' = [t \in Players |->
                    IF Holds(t, s) /\ ~stopOnce[t]
                      THEN CloseChan(stopCh[t]) ELSE stopCh[t]]

StopCall ==
    /\ ~crashed /\ cpc = "stop_call"
    /\ stop(cSession)
    /\ cSession' = 0
    /\ cpc' = AfterStop
    /\ UNCHANGED <<playerVars, threadVars, sid, status, audio, audioPaused,
                   audioPlaying, video, demuxer, audioPktChField, queueVars,
                   renderVars, demuxVars, audioVars, ctlOps, pktHist,
                   callHist>>

\* Close(): p.playMu.Lock(); p.playMu.Unlock()
CloseLock ==
    /\ ~crashed /\ cpc = "close_lock" /\ playMu = 0
    /\ cpc' = "close_renderer"
    /\ UNCHANGED <<playerVars, threadVars, sessVars, queueVars, renderVars,
                   demuxVars, audioVars, cSession, ctlOps, pktHist,
                   callHist>>

\* Close(): under configMu, CleanupSHM and p.renderer = nil; Close returns
CloseRenderer ==
    /\ ~crashed /\ cpc = "close_renderer"
    /\ renderer' = "nil"
    /\ closeReturned' = TRUE
    /\ cpc' = "closed"
    /\ UNCHANGED <<playing, paused, playMu, session, threadVars, sessVars,
                   queueVars, renderVars, demuxVars, audioVars, cSession,
                   ctlOps, pktHist, env, compVars, nsessions, stopSeen, stopInPause, closeInvoked,
                   lateFrame, sentAfterClose, sessionsRun, crashed>>

\* Pause(): p.paused.Store(!p.paused.Load())
PauseStore ==
    /\ ~crashed /\ cpc = "idle" /\ ctlOps < env.ctl
    /\ ctlOps' = ctlOps + 1
    /\ paused' = ~paused
    /\ cpc' = "pause_with"
    /\ UNCHANGED <<playing, playMu, session, renderer, threadVars, sessVars,
                   queueVars, renderVars, demuxVars, audioVars, cSession,
                   pktHist, callHist>>

\* Pause(): withSession reads p.session
PauseWithSession ==
    /\ ~crashed /\ cpc = "pause_with"
    /\ cSession' = session
    /\ cpc' = IF session = 0 THEN "idle" ELSE "pause_audio"
    /\ UNCHANGED <<playerVars, threadVars, sessVars, queueVars, renderVars,
                   demuxVars, audioVars, ctlOps, pktHist, callHist>>

\* Pause(): if s.audio != nil { s.audio.Pause() }, which toggles a.paused
PauseAudio ==
    /\ ~crashed /\ cpc = "pause_audio"
    /\ audioPaused' = [t \in Players |->
                         IF Holds(t, cSession) /\ audio[t] = "open"
                           THEN ~audioPaused[t] ELSE audioPaused[t]]
    /\ cSession' = 0
    /\ cpc' = "idle"
    /\ UNCHANGED <<playerVars, threadVars, sid, status, audio, audioPlaying,
                   video, demuxer, audioPktChField, stopCh, stopOnce,
                   queueVars, renderVars, demuxVars, audioVars, ctlOps,
                   pktHist, callHist>>

\* ---------------------------------------------------------------- specification
PlayStep(t) ==
    \/ PlayInvoke(t) \/ PlayLock(t) \/ PlayLoop(t)
    \/ NewPlaySession(t) \/ RunStart(t)
    \/ RenderRecv(t) \/ RenderCheckPlaying(t) \/ RenderDecode(t)
    \/ RenderSleep(t) \/ RenderSync(t) \/ RenderFrame(t)
    \/ CloseAudioQueue(t) \/ JoinAudio(t)
    \/ ClearSession(t) \/ CleanupAudio(t) \/ CleanupRest(t)
    \/ PlayUnlock(t)

DemuxStep(t) ==
    \/ DemuxCheck(t) \/ DemuxRead(t)
    \/ DemuxSendVideo(t) \/ DemuxSendAudio(t) \/ DemuxClose(t)

AudioStep(t) == AudioRangeStart(t) \/ AudioRecv(t)

CtlStep ==
    \/ StopStore \/ CloseStop \/ StopWithSession \/ StopCall
    \/ CloseLock \/ CloseRenderer
    \/ PauseStore \/ PauseWithSession \/ PauseAudio

Next ==
    \/ \E t \in Players : PlayStep(t)
    \/ \E t \in Players : DemuxStep(t)
    \/ \E t \in Players : AudioStep(t)
    \/ CtlStep

\* one Play call, followed packet by packet
SpecSession == InitWith(SessionEnv) /\ [][Next]_vars

\* one Play call with every way a DecodePacket call can end and frames
\* ahead of, near and behind the audio clock
SpecSync == InitWith(SyncEnv) /\ [][Next]_vars

\* Overlapping Play calls against Stop and Close.  Pause is not called here,
\* so the render loop never finds the pause flag set and never sleeps.
FacadePlayStep(t) ==
    \/ PlayInvoke(t) \/ PlayLock(t) \/ PlayLoop(t)
    \/ NewPlaySession(t) \/ RunStart(t)
    \/ RenderRecv(t) \/ RenderCheckPlaying(t) \/ RenderDecode(t)
    \/ RenderSync(t) \/ RenderFrame(t)
    \/ CloseAudioQueue(t) \/ JoinAudio(t)
    \/ ClearSession(t) \/ CleanupAudio(t) \/ CleanupRest(t)
    \/ PlayUnlock(t)

NextFacade ==
    \/ \E t \in Players : FacadePlayStep(t)
    \/ \E t \in Players : DemuxStep(t)
    \/ \E t \in Players : AudioStep(t)
    \/ StopStore \/ CloseStop \/ StopWithSession \/ StopCall
    \/ CloseLock \/ CloseRenderer

SpecFacade == InitWith(FacadeEnv) /\ [][NextFacade]_vars

\* ================================================================ claims
\* a playSession that has been constructed and whose cleanup has not ended
Active(t) == status[t] \in {"active", "cleaning"}

\* the Play call of goroutine t is in flight: invoked and not yet returned
InFlight(t) == pc[t] \notin {"idle", "returned"}

\* C1: for one AVPlayer at most one playSession is active (constructed and
\* not yet cleaned up) at any time, however Play, Stop and Close overlap.
C1_AtMostOneActiveSession ==
    Cardinality({t \in Players : Active(t)}) <= 1

\* a session is active while another Play call waits for the play lock and
\* a Stop or Close is under way
C1_Witness ==
    \E t, u \in Players :
        /\ t # u /\ Active(t) /\ pc[t] = "r_render"
        /\ pc[u] = "lock" /\ cpc = "stop_call"

\* C2: Close() does not tear down the renderer until every Play call invoked
\* before it has fully exited, so no frame is written after Close() returned.
C2_CloseWaitsForEveryPlay ==
    /\ closeReturned => \A t \in Players : ~InFlight(t)
    /\ ~lateFrame

\* run() has returned normally and cleanup() has not yet emptied the session
RunReturned(t) ==
    pc[t] \in {"clear_session", "cleanup", "cleanup_rest"} /\ ~panicking[t]

\* the render loop has ended and run() has not returned yet
Joining(t) == pc[t] \in {"wait_demux", "wait_audio"}

\* the render loop is running
Rendering(t) ==
    pc[t] \in {"r_recv", "r_playing", "r_paused", "r_sleep", "r_sync", "r_render"}

\* the elements of a sequence
Range(q) == {q[k] : k \in DOMAIN q}

\* C3: once the video render loop has ended, however it ended, run() goes on
\* to return by itself, and first of all its join of the demux activity
\* ends: while run() waits for the demux activity, that activity has ended
\* or can take a step, with no further call from outside.
C3_RunReturnsAfterRenderLoop ==
    \A t \in Players :
        pc[t] = "wait_demux" => ENABLED (DemuxStep(t) \/ CloseAudioQueue(t))

\* C4: after cleanup() of a session has started, the demux activity has
\* ended, the render loop has ended, and the audio-decode activity has ended
\* or can never receive a packet: none of them reads, decodes or uses the
\* demuxer, the video decoder or the audio player.
C4_NoActivityAfterCleanup ==
    \A t \in Players :
        status[t] \in {"cleaning", "torn"} =>
            /\ ~Rendering(t) /\ ~Joining(t)
            /\ demuxPc[t] \in {"off", "done"}
            /\ \/ audioPc[t] \in {"off", "done"}
               \/ audioPc[t] = "start" /\ audioPktChField[t] = "nil"
               \/ audioPc[t] = "recv" /\ audioRange[t] = "nil"
            /\ ~ENABLED AudioRecv(t)

\* cleanup() is running on a session whose activities read and decoded
\* packets and have all ended
C4_Witness ==
    \E t \in Players :
        /\ status[t] = "cleaning" /\ readPos[t] >= 2
        /\ decoded[t] # <<>> /\ cloned[t] # {}
        /\ demuxPc[t] = "done" /\ audioPc[t] = "done"

\* C5: each packet queue is closed at most once and never sent to after it
\* is closed; the video queue is closed exactly when the demux activity has
\* ended, the audio queue only by run() after the demux activity has ended;
\* both are closed once run() has returned; and a render loop waiting on a
\* closed video queue is never blocked.
C5_QueuesClosedOnce ==
    /\ ~sentAfterClose
    /\ \A t \in Players :
        /\ videoClosed[t] <= 1 /\ audioClosed[t] <= 1
        /\ (demuxPc[t] = "done") <=> (videoClosed[t] = 1)
        /\ audioClosed[t] = 1 =>
              /\ demuxPc[t] = "done"
              /\ pc[t] \in {"wait_audio", "clear_session", "cleanup",
                            "cleanup_rest"}
        /\ RunReturned(t) => videoClosed[t] = 1 /\ audioClosed[t] = 1
        /\ (pc[t] = "r_recv" /\ videoClosed[t] = 1) => ENABLED RenderRecv(t)

\* run() has returned after a stop request with both queues closed, packets
\* having gone through both
C5_Witness ==
    \E t \in Players :
        /\ RunReturned(t) /\ stopCh[t] = "closed"
        /\ videoClosed[t] = 1 /\ audioClosed[t] = 1
        /\ taken[t] # <<>> /\ cloned[t] # {}

\* C6: by the time run() returns every video packet ReadPacket returned has
\* been freed exactly once, the packets still in the video queue when the
\* render loop returned early included.
C6_VideoPacketsFreedOnce ==
    \A t \in Players :
        RunReturned(t) => \A i \in isVideo[t] : freed[t][i] = 1

\* C7: the original of every audio packet is freed exactly once, and before
\* its clone is queued; a clone waiting to be sent or in the audio queue is
\* not freed; no clone is freed twice; and once run() has returned every
\* clone has been freed exactly once.
C7_AudioPacketsFreedOnce ==
    \A t \in Players :
        /\ \A i \in PktIds :
              /\ (i <= readPos[t] /\ i \notin isVideo[t]) => freed[t][i] = 1
              /\ cloneFreed[t][i] <= 1
              /\ i \notin cloned[t] => cloneFreed[t][i] = 0
              /\ (i \in Range(audioPktCh[t])
                    \/ (demuxPc[t] = "send_a" /\ demuxPkt[t] = i)) =>
                    (i \in cloned[t] /\ cloneFreed[t][i] = 0)
        /\ RunReturned(t) => \A i \in cloned[t] : cloneFreed[t][i] = 1

\* run() has returned after a stop request, one clone having been decoded
\* by the audio-decode activity and another given up by the demux activity
C7_Witness ==
    \E t \in Players :
        /\ RunReturned(t) /\ stopCh[t] = "closed"
        /\ Cardinality(cloned[t]) >= 2

C9_PlayLoopsUntilStop ==
    \A t \in Players :
        /\ pc[t] \in {"loop", "new"} => (playing <=> ~stopSeen)
        /\ pc[t] = "loop" => (loopErr[t] = "nil" /\ ~panicking[t])
        /\ pc[t] = "unlock" =>
              /\ result[t] \in {"nil", "err", "panic"}
              /\ result[t] = "nil" => (stopSeen /\ ~playing)
              /\ result[t] = "err" => loopErr[t] # "nil"
              /\ result[t] = "panic" <=> panicking[t]

\* Play is about to return nil after a Stop(), two sessions having run to
\* their end before
C9_Witness ==
    \E t \in Players :
        pc[t] = "unlock" /\ result[t] = "nil" /\ sessionsRun[t] >= 2

\* the resources of the session in slot t are closed or were never made
Released(t) ==
    /\ audio[t] \in {"none", "failed", "closed"}
    /\ video[t] \in {"none", "closed"}
    /\ demuxer[t] \in {"none", "closed"}

\* C10: whenever Play is between two iterations of its loop, about to
\* construct the next session, or about to return (after an error or a
\* panic of run() included), the previous session is not registered as the
\* current session, its audio player, video decoder and demuxer are closed,
\* and its activities have ended (after a panic of run() the audio-decode
\* goroutine is left waiting on a nil queue).
C10_TornDownBeforeNext ==
    \A t \in Players :
        pc[t] \in {"loop", "new", "unlock"} =>
            /\ session = 0 /\ sid[t] = 0
            /\ status[t] \in {"none", "torn"}
            /\ Released(t)
            /\ demuxPc[t] = "off"
            /\ audioPc[t] = "off" \/ panicking[t]

\* Play is about to construct the next session, the previous one torn down
C10_Witness ==
    \E t \in Players :
        /\ pc[t] = "new" /\ status[t] = "torn" /\ sessionsRun[t] >= 1
        /\ video[t] = "closed" /\ demuxer[t] = "closed" /\ audio[t] = "closed"

C16_AudioOptional ==
    \A t \in Players :
        (status[t] = "active" /\ audio[t] = "none") => ~panicking[t]

\* bytes of decoded audio one audio packet adds to the buffer, at most
\* (an upper estimate: every clone that has been freed counts as decoded)
AudioBuffered(t) ==
    AudioChunkBytes * Cardinality({i \in cloned[t] : cloneFreed[t][i] >= 1})

\* targetBytes := AudioSampleRate * AudioChannels * 2 / 5, about 200 ms
PrebufferTarget == (AudioSampleRate * AudioChannels * 2) \div 5

\* enough audio is buffered, or the stream has ended
PrebufferDone(t) ==
    AudioBuffered(t) >= PrebufferTarget \/ demuxPc[t] \in {"closing", "done"}

\* C20: for media with audio, the audio output is not started and no frame
\* is rendered until about 200 ms of decoded audio is in the audio buffer
\* or the stream has ended.
C20_PrebufferBeforePlayback ==
    \A t \in Players :
        (status[t] = "active" /\ audio[t] = "open") =>
            /\ audioPlaying[t] => PrebufferDone(t)
            /\ pc[t] = "r_render" => PrebufferDone(t)

\* the Play call of goroutine t is running a session or on its way out
Playing(t) == pc[t] \notin {"idle", "lock", "returned"}

\* C11: when Stop() is called while playback is paused, the render loop
\* sees it at its next poll and leaves without decoding the packet it holds
\* and without a resume, and the Play call in flight goes on to return: as
\* long as it has not returned, it or one of its session's activities (or
\* the rest of the Stop() call) can take a step.
C11_StopDuringPause ==
    \A t \in Players :
        (stopInPause /\ paused /\ ~crashed /\ Playing(t)) =>
            /\ ~playing
            /\ ENABLED (PlayStep(t) \/ DemuxStep(t) \/ AudioStep(t)
                           \/ StopWithSession \/ StopCall)

\* the step of render loop t that applies the sync rule to the frame in hand
SyncStep(t) == pc[t] = "r_sync" /\ pc'[t] # "r_sync"

C14_BehindDropsWithinRenders ==
    [][\A t \in Players :
          (SyncStep(t) /\ IsPlaying(t)) =>
              /\ frameDiff[t] < -SyncThreshold =>
                    /\ pc'[t] = "r_recv"
                    /\ nDropped'[t] = nDropped[t] + 1
                    /\ nRendered'[t] = nRendered[t]
                    /\ slept'[t] = 0
                    /\ frameDiff'[t] = 0
              /\ (frameDiff[t] >= -SyncThreshold
                     /\ frameDiff[t] <= SyncThreshold) =>
                    /\ pc'[t] = "r_render"
                    /\ slept'[t] = 0
                    /\ frameDiff'[t] = frameDiff[t]
                    /\ nDropped'[t] = nDropped[t]]_vars

\* one frame was dropped and a frame exactly SyncThreshold behind the audio
\* clock waits for the renderer with no sleep
C14_Witness ==
    \E t \in Players :
        /\ pc[t] = "r_render" /\ frameDiff[t] = -SyncThreshold
        /\ slept[t] = 0 /\ nDropped[t] = 1

\* the frame produced by DecodePacket that the render loop still holds
InHand(t) == IF pc[t] \in {"r_sync", "r_render"} THEN 1 ELSE 0

\* C15: every frame produced by DecodePacket is passed to RenderFrame once or
\* dropped by the sync rule once: the frames decoded are the frames rendered,
\* the frames dropped and the one in hand, and when run() has returned
\* rendered + dropped = decoded.
C15_FramesRenderedOrDropped ==
    \A t \in Players :
        /\ nFrames[t] = nRendered[t] + nDropped[t] + InHand(t)
        /\ InHand(t) = 0 => (frameDiff[t] = 0 /\ slept[t] = 0)
        /\ RunReturned(t) => nFrames[t] = nRendered[t] + nDropped[t]

\* run() has returned after one frame was rendered and one was dropped
C15_Witness ==
    \E t \in Players :
        RunReturned(t) /\ nRendered[t] = 1 /\ nDropped[t] = 1

\* C17: any open or setup failure (the file, the video codec, the audio codec,
\* the audio device) makes Play return an error without running a session:
\* no session exists whose audio player failed to be set up.
C17_SetupFailureReturnsError ==
    \A t \in Players :
        audio[t] = "failed" => (status[t] # "active" /\ sessionsRun[t] = 0)

\* C18: a decode error of one packet from either decoder is fatal to the
\* session: when run() has returned without a Stop after the video or the
\* audio decoder reported an error, run() returns an error.
C18_DecodeErrorFatal ==
    \A t \in Players :
        (RunReturned(t) /\ ~stopSeen /\ audioErr[t] # "nil") =>
            loopErr[t] # "nil"

\* C19: a failure to scale one video frame or to resample one audio chunk is
\* skipped, DecodePacket reports no error for it and the session keeps
\* decoding: neither loop ends with a conversion failure.
C19_ConversionFailureSkipped ==
    \A t \in Players :
        /\ loopErr[t] # "scale_fail"
        /\ audioErr[t] \notin {"alloc_skip", "resample_skip"}

\* ---------------------------------------------------------------------
\* AudioPlayer and audioStreamer.Stream, the pull callback of the device

\* an environment in which no goroutine calls Play: the components below are
\* driven by their own callers
NoPlayEnv ==
    [callers |-> {}, pkts |-> 0, runs |-> 0, ctl |-> 0, diffs |-> {0},
     vpaths |-> {"ok"}, apaths |-> {"ok"}, frames |-> FALSE,
     audios |-> {"open"},
     built |-> "none"]

\* no Play call, and component c constructed
ComponentEnv(c) == [NoPlayEnv EXCEPT !.built = c]

\* bytesPerSample := 4 (s16le stereo)
BytesPerSample == 4

\* one stereo sample as DecodePacket appends it: left low, left high, right
\* low, right high
SampleBytes == {<<1, 0, 2, 0>>, <<255, 255, 0, 128>>}

\* what one DecodePacket call appends: numSamples * AudioChannels * 2 bytes
DecodedChunks ==
    SampleBytes \cup {a \o b : a \in SampleBytes, b \in SampleBytes}

\* int16(lo) | int16(hi)<<8
Int16(lo, hi) ==
    LET u == lo + 256 * hi
    IN  IF u >= 32768 THEN u - 65536 ELSE u

Drop(seq, n) == SubSeq(seq, n + 1, Len(seq))

\* the loop of Stream over samples[i .. n]: a sample of the buffer is
\* converted, stored at i and consumed; when fewer than bytesPerSample bytes
\* are left the rest of samples is zeroed and the loop ends
RECURSIVE StreamLoop(_, _, _, _)
StreamLoop(buf, out, i, played) ==
    IF i > Len(out)
      THEN [buf |-> buf, out |-> out, played |-> played]
      ELSE IF Len(buf) < BytesPerSample
             THEN [buf |-> buf,
                   out |-> [j \in 1..Len(out) |->
                               IF j >= i THEN <<0, 0>> ELSE out[j]],
                   played |-> played]
             ELSE StreamLoop(Drop(buf, BytesPerSample),
                             [out EXCEPT ![i] = <<Int16(buf[1], buf[2]),
                                                  Int16(buf[3], buf[4])>>],
                             i + 1, played + 1)

\* a Stream that reports the samples it took from the buffer and ends the
\* stream when it took none
StreamCallShort(n) ==
    /\ audioPlayer.streamPc = "idle"
    /\ audioPlayer.streamCalls < StreamMaxCalls
    /\ audioPlayer' =
         IF audioPlayer.streamPaused
           THEN [audioPlayer EXCEPT
                    !.streamCalls = @ + 1,
                    !.samples = [i \in 1..n |-> <<0, 0>>],
                    !.streamN = 0, !.streamOk = FALSE,
                    !.lastSilent = TRUE]
           ELSE LET r == StreamLoop(audioPlayer.sampleBuf,
                                    [i \in 1..n |-> StaleSample], 1, 0)
                IN  [audioPlayer EXCEPT
                        !.streamCalls = @ + 1,
                        !.sampleBuf = r.buf,
                        !.samples = r.out,
                        !.samplesPlayed = r.played,
                        !.consumed = @ + r.played,
                        !.lastSilent = (r.played = 0),
                        !.streamN = r.played, !.streamOk = (r.played > 0),
                        !.streamPc = IF r.played > 0 THEN "load" ELSE "idle"]
    /\ UNCHANGED streamRest

\* Stream(samples) with len(samples) = n: under bufMu, silence when paused,
\* otherwise the loop over the buffer; with samplesPlayed > 0 the clock is
\* updated next (clock.Load, then clock.Store), still under bufMu; the
\* callback returns len(samples), true
StreamCall(n) ==
    /\ audioPlayer.streamPc = "idle"
    /\ audioPlayer.streamCalls < StreamMaxCalls
    /\ audioPlayer' =
         IF audioPlayer.streamPaused
           THEN [audioPlayer EXCEPT
                    !.streamCalls = @ + 1,
                    !.samples = [i \in 1..n |-> <<0, 0>>],
                    !.streamN = n, !.streamOk = TRUE,
                    !.lastSilent = TRUE]
           ELSE LET r == StreamLoop(audioPlayer.sampleBuf,
                                    [i \in 1..n |-> StaleSample], 1, 0)
                IN  [audioPlayer EXCEPT
                        !.streamCalls = @ + 1,
                        !.sampleBuf = r.buf,
                        !.samples = r.out,
                        !.samplesPlayed = r.played,
                        !.consumed = @ + r.played,
                        !.lastSilent = (r.played = 0),
                        !.streamN = n, !.streamOk = TRUE,
                        !.streamPc = IF r.played > 0 THEN "load" ELSE "idle"]
    /\ UNCHANGED streamRest

\* s.player.clock.Load().(float64)
StreamLoad ==
    /\ audioPlayer.streamPc = "load"
    /\ audioPlayer' = [audioPlayer EXCEPT
                          !.clockRead = audioPlayer.clock,
                          !.streamPc = "store"]
    /\ UNCHANGED streamRest

\* s.player.clock.Store(loaded + samplesPlayed / AudioSampleRate): the clock
\* is kept in units of 1/AudioSampleRate s
StreamStore ==
    /\ audioPlayer.streamPc = "store"
    /\ audioPlayer' = [audioPlayer EXCEPT
                          !.clock = audioPlayer.clockRead
                                      + audioPlayer.samplesPlayed,
                          !.streamPc = "idle"]
    /\ UNCHANGED streamRest

\* DecodePacket on an open player: a.sampleBuf = append(a.sampleBuf, ...)
\* under bufMu, which a running callback holds
StreamAppend ==
    /\ audioPlayer.streamPc = "idle" /\ ~audioPlayer.playerClosed
    /\ audioPlayer.nAppends < StreamDecodes
    /\ \E chunk \in DecodedChunks :
          audioPlayer' = [audioPlayer EXCEPT
                             !.sampleBuf = @ \o chunk,
                             !.nAppends = @ + 1]
    /\ UNCHANGED streamRest

\* AudioPlayer.Pause: a.paused.Store(!a.paused.Load())
StreamPause ==
    /\ audioPlayer' = [audioPlayer EXCEPT !.streamPaused = ~@]
    /\ UNCHANGED streamRest

\* AudioPlayer.ResetClock: a.clock.Store(0), from any goroutine
ResetClock ==
    /\ audioPlayer.nResets < StreamResets
    /\ audioPlayer' = [audioPlayer EXCEPT
                          !.clock = 0, !.consumed = 0, !.nResets = @ + 1]
    /\ UNCHANGED streamRest

\* AudioPlayer.Close: a.closed = true (DecodePacket then fails before it
\* appends); a callback already scheduled still runs
StreamClose ==
    /\ ~audioPlayer.playerClosed
    /\ audioPlayer' = [audioPlayer EXCEPT !.playerClosed = TRUE]
    /\ UNCHANGED streamRest

NextStream ==
    \/ \E n \in 0..StreamMaxReq : StreamCall(n)
    \/ StreamLoad
    \/ StreamStore
    \/ StreamAppend
    \/ StreamPause
    \/ ResetClock
    \/ StreamClose

\* the pull callback against every interleaving of DecodePacket, Pause,
\* ResetClock and Close
SpecStream == InitWith(ComponentEnv("stream")) /\ [][NextStream]_vars

\* the callback is not running (it has returned or was not yet called)
StreamReturned == audioPlayer.streamPc = "idle" /\ audioPlayer.streamCalls > 0

\* C21: every call of Stream(samples) returns n = len(samples) and ok = true,
\* paused or not, whatever the buffer holds and after Close; every position
\* the buffer did not fill holds a zero sample (no position is left as the
\* device passed it in).
C21_StreamAlwaysFull ==
    /\ audioPlayer.streamOk
    /\ StreamReturned =>
          /\ audioPlayer.streamN = Len(audioPlayer.samples)
          /\ \A i \in 1..Len(audioPlayer.samples) : audioPlayer.samples[i] # StaleSample
          /\ audioPlayer.lastSilent => \A i \in 1..Len(audioPlayer.samples) : audioPlayer.samples[i] = <<0, 0>>
    /\ audioPlayer.streamPc # "idle" =>
          \A i \in 1..Len(audioPlayer.samples) :
              i > audioPlayer.samplesPlayed => audioPlayer.samples[i] = <<0, 0>>

\* a callback for two samples found one in the buffer of a closed player:
\* one converted sample, one zero sample
C21_Witness ==
    /\ StreamReturned /\ audioPlayer.playerClosed /\ ~audioPlayer.lastSilent
    /\ Len(audioPlayer.samples) = 2 /\ audioPlayer.streamN = 2
    /\ audioPlayer.samples[1] = <<-1, -32768>> /\ audioPlayer.samples[2] = <<0, 0>>

\* C22: whenever no callback is running, the master clock equals the samples
\* the callback has consumed from the buffer since the clock was last reset,
\* over AudioSampleRate (both counted here in samples); a callback that emits
\* only silence leaves the clock and the buffer as they were.
C22_ClockIsConsumed ==
    audioPlayer.streamPc = "idle" => audioPlayer.clock = audioPlayer.consumed

\* a callback that emits only silence changes neither the clock nor the
\* buffer
C22_SilenceChangesNothing ==
    [][(audioPlayer'.streamCalls = audioPlayer.streamCalls + 1 /\ audioPlayer'.lastSilent) =>
          (audioPlayer'.sampleBuf = audioPlayer.sampleBuf /\ audioPlayer'.clock = audioPlayer.clock /\ audioPlayer'.streamPc = "idle")]_vars

\* ---------------------------------------------------------------------
\* initSpeaker: the process-global audio device

\* outcomes of speaker.Init
SpeakerOutcomes == {"nil", "init_failed"}

\* NewAudioPlayer reaches `initSpeaker()` on goroutine c
CtorBegin(c) ==
    /\ speakerDev.ctorPc[c] = "idle"
    /\ speakerDev.ctorCalls < MaxCtorCalls
    /\ speakerDev' = [speakerDev EXCEPT
                         !.ctorCalls = @ + 1,
                         !.ctorPc[c] = "once",
                         !.ctorErr[c] = "none"]
    /\ UNCHANGED speakerRest

\* an initSpeaker that calls speaker.Init without the Once
OnceDoUnguarded(c) ==
    /\ speakerDev.ctorPc[c] = "once"
    /\ speakerDev' = [speakerDev EXCEPT !.ctorPc[c] = "init"]
    /\ UNCHANGED speakerRest

\* speakerOnce.Do(f): the first caller runs f, a caller that arrives while f
\* runs waits for it to finish, a later caller returns at once
OnceDo(c) ==
    /\ speakerDev.ctorPc[c] = "once"
    /\ speakerDev.speakerOnce # "running"
    /\ speakerDev' =
         IF speakerDev.speakerOnce = "new"
           THEN [speakerDev EXCEPT
                    !.speakerOnce = "running", !.ctorPc[c] = "init"]
           ELSE [speakerDev EXCEPT !.ctorPc[c] = "return"]
    /\ UNCHANGED speakerRest

\* f: speakerInitErr = speaker.Init(...)
SpeakerInitRun(c) ==
    /\ speakerDev.ctorPc[c] = "init"
    /\ \E e \in SpeakerOutcomes :
          speakerDev' = [speakerDev EXCEPT
                            !.speakerInitErr = e,
                            !.speakerInits = @ + 1,
                            !.speakerOnce = "done",
                            !.ctorPc[c] = "return"]
    /\ UNCHANGED speakerRest

\* return speakerInitErr; NewAudioPlayer fails with it when it is not nil
CtorReturn(c) ==
    /\ speakerDev.ctorPc[c] = "return"
    /\ speakerDev' = [speakerDev EXCEPT
                         !.ctorErr[c] = speakerDev.speakerInitErr,
                         !.ctorPc[c] = "idle"]
    /\ UNCHANGED speakerRest

NextSpeaker ==
    \E c \in Ctors :
        \/ CtorBegin(c)
        \/ OnceDo(c)
        \/ SpeakerInitRun(c)
        \/ CtorReturn(c)

\* constructions of AudioPlayers on concurrent goroutines
SpecSpeaker == InitWith(ComponentEnv("speaker")) /\ [][NextSpeaker]_vars

\* C23: the process-global audio device is initialised at most once however
\* many AudioPlayers are constructed, concurrently or one after another:
\* no construction gets past initSpeaker before the one initialisation has
\* finished, and every construction sees the outcome of that first one.
C23_SpeakerInitOnce ==
    /\ speakerDev.speakerInits <= 1
    /\ \A c \in Ctors :
          /\ speakerDev.ctorPc[c] = "return" => (speakerDev.speakerOnce = "done" /\ speakerDev.speakerInits = 1)
          /\ speakerDev.ctorErr[c] # "none" => speakerDev.ctorErr[c] = speakerDev.speakerInitErr

\* every goroutine has constructed, one of them twice, the first attempt
\* failed, and everyone got the failure of the single initialisation
C23_Witness ==
    /\ speakerDev.ctorCalls = MaxCtorCalls /\ speakerDev.speakerInits = 1
    /\ \A c \in Ctors : speakerDev.ctorPc[c] = "idle" /\ speakerDev.ctorErr[c] = "init_failed"

\* ---------------------------------------------------------------------
\* KittyRenderer: the direct inline transmission (writeImageDirect)

\* const chunkSize = 4096
ChunkSize == 4096

\* the '=' of base64 padding; the 64 symbols of the alphabet are 0..63
Pad == 64

\* base64.StdEncoding.EncodeToString: three bytes make four symbols, a last
\* group of one or two bytes is padded with '='
Base64Encode(data) ==
    LET n == Len(data)
        At(k) == IF k <= n THEN data[k] ELSE 0
    IN  [k \in 1..(4 * ((n + 2) \div 3)) |->
            LET g == (k - 1) \div 4
                j == (k - 1) % 4
                b0 == At(3 * g + 1)
                b1 == At(3 * g + 2)
                b2 == At(3 * g + 3)
            IN  CASE j = 0 -> b0 \div 4
                  [] j = 1 -> (b0 % 4) * 16 + (b1 \div 16)
                  [] j = 2 -> IF 3 * g + 2 > n THEN Pad
                              ELSE (b1 % 16) * 4 + (b2 \div 64)
                  [] j = 3 -> IF 3 * g + 3 > n THEN Pad ELSE b2 % 64]

\* the terminal's side, base64 decoding: four symbols make three bytes, less
\* one byte for each '=' of the last group
Base64Decode(enc) ==
    LET n == Len(enc)
        pads == IF n = 0 THEN 0
                ELSE IF enc[n - 1] = Pad THEN 2
                ELSE IF enc[n] = Pad THEN 1 ELSE 0
        Sym(k) == IF enc[k] = Pad THEN 0 ELSE enc[k]
    IN  [i \in 1..(3 * (n \div 4) - pads) |->
            LET g == (i - 1) \div 3
                j == (i - 1) % 3
                s0 == Sym(4 * g + 1)
                s1 == Sym(4 * g + 2)
                s2 == Sym(4 * g + 3)
                s3 == Sym(4 * g + 4)
            IN  CASE j = 0 -> s0 * 4 + (s1 \div 16)
                  [] j = 1 -> (s1 % 16) * 16 + (s2 \div 4)
                  [] j = 2 -> (s2 % 4) * 64 + s3]

\* one escape sequence of the output: its kind, for a graphics command
\* (ESC _G ... ESC \) the keys in the order written with their values and
\* the payload, for a cursor move the cell; -1 and "" stand for a key that
\* is not written
Seq0(kind, row, col) ==
    [t |-> kind, keys |-> <<>>, a |-> "", f |-> -1, s |-> -1, v |-> -1,
     i |-> -1, q |-> -1, m |-> -1, row |-> row, col |-> col,
     payload |-> <<>>]

\* "\x1b_Ga=T,f=%d,s=%d,v=%d,i=%d,q=2,m=%d;%s\x1b\\" for the first chunk,
\* "\x1b_Gm=%d;%s\x1b\\" for every other
ChunkCmd(first, format, width, height, id, more, chunk) ==
    IF first
      THEN [t |-> "graphics", keys |-> <<"a", "f", "s", "v", "i", "q", "m">>,
            a |-> "T", f |-> format, s |-> width, v |-> height, i |-> id,
            q |-> 2, m |-> more, row |-> -1, col |-> -1, payload |-> chunk]
      ELSE [t |-> "graphics", keys |-> <<"m">>,
            a |-> "", f |-> -1, s |-> -1, v |-> -1, i |-> -1,
            q |-> -1, m |-> more, row |-> -1, col |-> -1, payload |-> chunk]

\* a chunk loop that cuts when at least chunkSize symbols are left
RECURSIVE DirectLoopCutsAtSize(_, _, _, _, _, _, _)
DirectLoopCutsAtSize(buf, encoded, first, format, width, height, id) ==
    IF Len(encoded) = 0 THEN buf
    ELSE IF Len(encoded) >= ChunkSize
      THEN DirectLoopCutsAtSize(
               Append(buf, ChunkCmd(first, format, width, height, id, 1,
                                    SubSeq(encoded, 1, ChunkSize))),
               Drop(encoded, ChunkSize), FALSE, format, width, height, id)
      ELSE DirectLoopCutsAtSize(
               Append(buf, ChunkCmd(first, format, width, height, id, 0,
                                    encoded)),
               <<>>, FALSE, format, width, height, id)

\* a chunk loop that writes the symbols of the second chunk again in the third
RECURSIVE DirectLoopRepeats(_, _, _, _, _, _, _)
DirectLoopRepeats(buf, encoded, first, format, width, height, id) ==
    IF Len(encoded) = 0 THEN buf
    ELSE IF Len(encoded) > ChunkSize
      THEN DirectLoopRepeats(
               Append(buf, ChunkCmd(first, format, width, height, id, 1,
                                    SubSeq(encoded, 1, ChunkSize))),
               IF first THEN Drop(encoded, ChunkSize)
               ELSE Drop(encoded, ChunkSize - 4) ,
               FALSE, format, width, height, id)
      ELSE DirectLoopRepeats(
               Append(buf, ChunkCmd(first, format, width, height, id, 0,
                                    encoded)),
               <<>>, FALSE, format, width, height, id)

\* for len(encoded) > 0: a chunk of chunkSize symbols with m=1 while more
\* than chunkSize are left, else the rest with m=0
RECURSIVE DirectLoop(_, _, _, _, _, _, _)
DirectLoop(buf, encoded, first, format, width, height, id) ==
    IF Len(encoded) = 0 THEN buf
    ELSE IF Len(encoded) > ChunkSize
      THEN DirectLoop(
               Append(buf, ChunkCmd(first, format, width, height, id, 1,
                                    SubSeq(encoded, 1, ChunkSize))),
               Drop(encoded, ChunkSize), FALSE, format, width, height, id)
      ELSE DirectLoop(
               Append(buf, ChunkCmd(first, format, width, height, id, 0,
                                    encoded)),
               <<>>, FALSE, format, width, height, id)

\* writeImageDirect(buf, data, format, width, height, id): buf afterwards
WriteImageDirect(buf, data, format, width, height, id) ==
    DirectLoop(buf, Base64Encode(data), TRUE, format, width, height, id)

\* pixel data of n bytes, byte values by pattern p
PatternBytes(n, p) == [k \in 1..n |-> (k * (2 * p + 1) + 37 * p) % 256]

\* lengths whose encodings are below, at and above one and two chunks
\* (3072 bytes encode to 4096 symbols)
DirectLens ==
    {1, 2, 3, 4, 5, 6, 3070, 3071, 3072, 3073, 3074, 6143, 6144, 6145, 6146}

DirectData == {PatternBytes(n, p) : n \in DirectLens, p \in 1..NPatterns}

\* writeImageDirect on a fresh buffer
DirectCall(data, format) ==
    /\ directTx.directCalls = 0
    /\ directTx' =
         [directCalls |-> 1,
          directData |-> data,
          directOut |-> WriteImageDirect(<<>>, data, format, Len(data), 1, 1)]
    /\ UNCHANGED directRest

NextDirect == \E data \in DirectData, format \in {24, 32} : DirectCall(data, format)

SpecDirect == InitWith(ComponentEnv("direct")) /\ [][NextDirect]_vars

\* the payloads of the chunks in emission order, joined
RECURSIVE JoinPayloads(_)
JoinPayloads(cmds) ==
    IF cmds = <<>> THEN <<>>
    ELSE Head(cmds).payload \o JoinPayloads(Tail(cmds))

CeilDiv(a, b) == (a + b - 1) \div b

\* C24: the payloads of all chunks the direct inline path emits, joined in
\* emission order up to and including the final m=0 chunk and
\* base64-decoded, are the original bytes, for encoded lengths below, at and
\* above the 4096 boundary.
C24_ChunksRoundTrip ==
    directTx.directCalls = 1 =>
        /\ directTx.directOut # <<>>
        /\ directTx.directOut[Len(directTx.directOut)].m = 0
        /\ Base64Decode(JoinPayloads(directTx.directOut)) = directTx.directData

\* 6145 bytes, encoded to 8196 symbols in three chunks
C24_Witness ==
    /\ directTx.directCalls = 1 /\ Len(directTx.directData) = 6145 /\ Len(directTx.directOut) = 3
    /\ directTx.directData[6145] >= 128

\* C25: a payload of encoded length L >= 1 is framed as exactly
\* ceil(L/4096) chunks, each with a payload of 1..4096 symbols; only the
\* first chunk carries the image metadata (a=T, f, s, v, i, q=2), the others
\* carry the m key alone; m=1 on every chunk but the last, m=0 on the last.
C25_ChunkFraming ==
    directTx.directCalls = 1 =>
        LET L == 4 * ((Len(directTx.directData) + 2) \div 3)
            n == Len(directTx.directOut)
        IN  /\ L >= 1
            /\ n = CeilDiv(L, ChunkSize)
            /\ \A k \in 1..n :
                  /\ directTx.directOut[k].t = "graphics"
                  /\ Len(directTx.directOut[k].payload) \in 1..ChunkSize
                  /\ directTx.directOut[k].m = (IF k < n THEN 1 ELSE 0)
                  /\ IF k = 1
                       THEN /\ directTx.directOut[k].keys =
                                   <<"a", "f", "s", "v", "i", "q", "m">>
                            /\ directTx.directOut[k].a = "T"
                            /\ directTx.directOut[k].f \in {24, 32}
                            /\ directTx.directOut[k].s = Len(directTx.directData)
                            /\ directTx.directOut[k].v = 1
                            /\ directTx.directOut[k].i = 1
                            /\ directTx.directOut[k].q = 2
                       ELSE directTx.directOut[k].keys = <<"m">>

\* 3072 bytes encode to exactly 4096 symbols: one chunk, m=0
C25_Witness ==
    /\ directTx.directCalls = 1 /\ Len(directTx.directData) = 3072
    /\ Len(directTx.directOut) = 1 /\ Len(directTx.directOut[1].payload) = ChunkSize
    /\ directTx.directOut[1].m = 0

\* ---------------------------------------------------------------------
\* KittyRenderer.RenderFrame, the shared-memory path and CleanupSHM

\* r.imageID, set to 1 by NewKittyRenderer and never changed
ImageID == 1

\* "\x1b_Ga=d,d=i,i=%d,q=2\x1b\\"
DeleteCmd(id) ==
    [t |-> "graphics", keys |-> <<"a", "d", "i", "q">>,
     a |-> "d", f |-> -1, s |-> -1, v |-> -1, i |-> id,
     q |-> 2, m |-> -1, row |-> -1, col |-> -1, payload |-> <<>>]

\* "\x1b_Ga=T,f=%d,s=%d,v=%d,i=%d,t=s,q=2;%s\x1b\\"
ShmCmd(format, width, height, id, encodedName) ==
    [t |-> "graphics", keys |-> <<"a", "f", "s", "v", "i", "t", "q">>,
     a |-> "T", f |-> format, s |-> width, v |-> height, i |-> id,
     q |-> 2, m |-> -1, row |-> -1, col |-> -1, payload |-> encodedName]

\* the decimal digits of n as ASCII bytes (fmt %d)
RECURSIVE Decimal(_)
Decimal(n) ==
    IF n < 10 THEN <<48 + n>>
    ELSE Append(Decimal(n \div 10), 48 + (n % 10))

\* fmt.Sprintf("/kitty-reels-%d-%d", id, r.shmIndex) as bytes
ShmName(id, index) ==
    <<47, 107, 105, 116, 116, 121, 45, 114, 101, 101, 108, 115, 45>>
        \o Decimal(id) \o <<45>> \o Decimal(index)

\* outcomes of writeImageShm: nil, or the error of OpenFile, Write or Close
ShmOutcomes == {"ok", "open_failed", "write_failed", "close_failed"}

\* writeImageShm(buf, data, format, width, height, id) with r.shmIndex =
\* index: the file exists once OpenFile succeeded; the command is written
\* to buf only after Write and Close succeeded
WriteImageShm(buf, data, format, width, height, id, index, outcome) ==
    [buf |-> IF outcome = "ok"
               THEN Append(buf, ShmCmd(format, width, height, id,
                                       Base64Encode(ShmName(id, index))))
               ELSE buf,
     created |-> outcome # "open_failed",
     err |-> outcome]

\* the transmission part of RenderFrame
Transmit(buf, data, width, height, shm, outcome) ==
    IF shm
      THEN LET r == WriteImageShm(buf, data, 24, width, height, ImageID,
                                  kitty.shmIndex, outcome)
           IN  IF r.err # "ok"
                 THEN WriteImageDirect(r.buf, data, 24, width, height, ImageID)
                 ELSE r.buf
      ELSE WriteImageDirect(buf, data, 24, width, height, ImageID)

\* buf up to the transmission: begin synchronized update, save cursor,
\* delete of the previous image if r.lastW > 0, cursor move
UpdateHead ==
    <<Seq0("begin_sync", -1, -1), Seq0("save", -1, -1)>>
      \o (IF kitty.lastW > 0 THEN <<DeleteCmd(ImageID)>> ELSE <<>>)
      \o (IF kitty.cellPos[1] > 0 /\ kitty.cellPos[2] > 0
            THEN <<Seq0("move", kitty.cellPos[1], kitty.cellPos[2])>>
            ELSE <<Seq0("home", -1, -1)>>)

\* buf after the transmission: restore cursor, end synchronized update
UpdateTail == <<Seq0("restore", -1, -1), Seq0("end_sync", -1, -1)>>

\* frames: an RGB buffer of width*height*3 bytes with its dimensions
RenderInputs ==
    {[data |-> PatternBytes(3, 1), width |-> 1, height |-> 1],
     [data |-> PatternBytes(6, 2), width |-> 2, height |-> 1]}

\* results of r.out.Write
WriteOutcomes == {"nil", "write_failed"}

\* a RenderFrame that writes the head of the update before it transmits
KittyFrameFlushesEarly(in, outcome, wr) ==
    /\ ~kitty.rendererClosed /\ kitty.nRenders < MaxRenders
    /\ (outcome = "none") = ~kitty.useShm
    /\ kitty' = [kitty EXCEPT
          !.nRenders = @ + 1,
          !.rgb = in.data,
          !.written = <<UpdateHead,
                        Transmit(<<>>, in.data, in.width, in.height,
                                 kitty.useShm, outcome) \o UpdateTail>>,
          !.shmErr = outcome,
          !.shmFailures = IF outcome \in {"ok", "none"} THEN @ ELSE @ + 1,
          !.shmIndex = IF kitty.useShm THEN @ + 1 ELSE @,
          !.shmFiles = IF kitty.useShm /\ outcome # "open_failed"
                         THEN @ \cup {kitty.shmIndex} ELSE @,
          !.lastW = in.width,
          !.outErr = wr,
          !.renderErr = wr]
    /\ UNCHANGED kittyRest

\* a RenderFrame that turns shared memory off once it failed
KittyFrameGivesUpShm(in, outcome, wr) ==
    /\ ~kitty.rendererClosed /\ kitty.nRenders < MaxRenders
    /\ (outcome = "none") = ~kitty.useShm
    /\ kitty' = [kitty EXCEPT
          !.nRenders = @ + 1,
          !.rgb = in.data,
          !.written = <<Transmit(UpdateHead, in.data, in.width, in.height,
                                 kitty.useShm, outcome) \o UpdateTail>>,
          !.shmErr = outcome,
          !.shmFailures = IF outcome \in {"ok", "none"} THEN @ ELSE @ + 1,
          !.shmIndex = IF kitty.useShm THEN @ + 1 ELSE @,
          !.shmFiles = IF kitty.useShm /\ outcome # "open_failed"
                         THEN @ \cup {kitty.shmIndex} ELSE @,
          !.lastW = in.width,
          !.outErr = wr,
          !.renderErr = wr,
          !.useShm = (@ /\ outcome = "ok")]
    /\ UNCHANGED kittyRest

\* RenderFrame(rgb, width, height) under r.mu: the update is built in buf
\* and handed to r.out.Write once; the error of that Write is returned
KittyRenderFrame(in, outcome, wr) ==
    /\ ~kitty.rendererClosed /\ kitty.nRenders < MaxRenders
    /\ (outcome = "none") = ~kitty.useShm
    /\ kitty' = [kitty EXCEPT
          !.nRenders = @ + 1,
          !.rgb = in.data,
          !.written = <<Transmit(UpdateHead, in.data, in.width, in.height,
                                 kitty.useShm, outcome) \o UpdateTail>>,
          !.shmErr = outcome,
          !.shmFailures = IF outcome \in {"ok", "none"} THEN @ ELSE @ + 1,
          !.shmIndex = IF kitty.useShm THEN @ + 1 ELSE @,
          !.shmFiles = IF kitty.useShm /\ outcome # "open_failed"
                         THEN @ \cup {kitty.shmIndex} ELSE @,
          !.lastW = in.width,
          !.outErr = wr,
          !.renderErr = wr]
    /\ UNCHANGED kittyRest

\* KittyRenderer.SetUseShm
SetUseShm(b) ==
    /\ ~kitty.rendererClosed /\ kitty.nShmSets < MaxShmSets
    /\ kitty' = [kitty EXCEPT !.useShm = b, !.nShmSets = @ + 1]
    /\ UNCHANGED kittyRest

\* KittyRenderer.SetCellPosition(row, col)
SetCellPosition(row, col) ==
    /\ ~kitty.rendererClosed /\ kitty.cellPos # <<row, col>>
    /\ kitty' = [kitty EXCEPT !.cellPos = <<row, col>>]
    /\ UNCHANGED kittyRest

\* AVPlayer.Close with a renderer: p.renderer.CleanupSHM() removes the
\* /dev/shm/kitty-reels-* files unless r.useShm is false; p.renderer = nil
CleanupSHM ==
    /\ ~kitty.rendererClosed
    /\ kitty' = [kitty EXCEPT
                    !.rendererClosed = TRUE,
                    !.shmFiles = IF kitty.useShm THEN {} ELSE @]
    /\ UNCHANGED kittyRest

NextRender ==
    \/ \E in \in RenderInputs, outcome \in ShmOutcomes \cup {"none"},
          wr \in WriteOutcomes : KittyRenderFrame(in, outcome, wr)
    \/ \E b \in BOOLEAN : SetUseShm(b)
    \/ SetCellPosition(2, 3)
    \/ CleanupSHM

\* one renderer: frames, SetUseShm and SetCellPosition in any order, Close
SpecRender == InitWith(ComponentEnv("kitty")) /\ [][NextRender]_vars

\* the commands of u that transmit an image (a=T, or a continuation chunk)
IsTransmit(c) == c.t = "graphics" /\ c.a # "d"

RenderStep == kitty'.nRenders = kitty.nRenders + 1

\* C27: when shared memory is enabled and fails for a frame (OpenFile, Write
\* or Close error), the same frame goes out by the direct inline path in
\* the same update, no shared-memory command is in it, RenderFrame returns
\* what the write of the update returned (not the failure), and shared
\* memory stays enabled: every frame rendered while it is enabled tries it.
C27_ShmFailureFallsBack ==
    [][(RenderStep /\ kitty.useShm) =>
          /\ kitty'.shmErr \in ShmOutcomes
          /\ kitty'.shmIndex = kitty.shmIndex + 1
          /\ kitty'.useShm = kitty.useShm
          /\ kitty'.shmErr # "ok" =>
                /\ Len(kitty'.written) = 1
                /\ \A k \in 1..Len(kitty'.written[1]) :
                      kitty'.written[1][k].keys # <<"a", "f", "s", "v", "i", "t", "q">>
                /\ \E k \in 1..Len(kitty'.written[1]) :
                      /\ kitty'.written[1][k] =
                            ChunkCmd(TRUE, 24, kitty'.lastW, 1, ImageID, 0,
                                     Base64Encode(kitty'.rgb))
                      /\ kitty'.written[1][k + 1].t = "restore"
                /\ kitty'.renderErr = kitty'.outErr]_vars

\* two frames in a row failed on shared memory (the second attempt was made
\* after the first failure), both were sent inline and reported no error
C27_Witness ==
    /\ kitty.nRenders = 2 /\ kitty.shmIndex = 2 /\ kitty.shmFailures = 2 /\ kitty.useShm
    /\ kitty.shmErr = "close_failed" /\ kitty.renderErr = "nil"
    /\ kitty.written[1][5].keys = <<"a", "f", "s", "v", "i", "q", "m">>

\* C28: after Close() has returned no shared-memory file created by this
\* renderer remains, whatever SetUseShm calls and frames came before.
C28_NoShmFileAfterClose ==
    kitty.rendererClosed => kitty.shmFiles = {}

\* ---------------------------------------------------------------------
\* GIF overlays: AVPlayer.SetVisibleGifs and the session's visible list

\* the animations (identities of *GifAnimation)
Anims == {"A", "B", "C"}

\* first image ID of the GIF overlays; slot k of the list is shown as image
\* GifImageID + k - 1
GifImageID == 200

\* slot lists the UI supplies: up to two slots of different animations, slot
\* k placed at row k
SlotLists ==
    {<<>>}
      \cup {<<[anim |-> a, row |-> 1, col |-> 1]>> : a \in Anims}
      \cup {<<[anim |-> ab[1], row |-> 1, col |-> 1],
              [anim |-> ab[2], row |-> 2, col |-> 1]>> :
                ab \in {x \in Anims \X Anims : x[1] # x[2]}}

\* the record of the old list that shows animation a (0 if there is none)
OldIndex(old, a) ==
    IF \E j \in 1..Len(old) : old[j].anim = a
      THEN CHOOSE j \in 1..Len(old) : old[j].anim = a
      ELSE 0

\* a replacement that restarts every animation
ReplaceVisibleRestarts(old, slots, now) ==
    [k \in 1..Len(slots) |->
        [anim |-> slots[k].anim, frameIndex |-> 0, lastAdvance |-> now,
         row |-> slots[k].row, col |-> slots[k].col,
         imageID |-> GifImageID + k - 1]]

\* playSession.setVisibleGifs(slots): the new visible list; an animation of
\* the old list keeps frameIndex and lastAdvance, a new one starts at frame 0
ReplaceVisible(old, slots, now) ==
    [k \in 1..Len(slots) |->
        LET j == OldIndex(old, slots[k].anim)
        IN  [anim |-> slots[k].anim,
             frameIndex |-> IF j > 0 THEN old[j].frameIndex ELSE 0,
             lastAdvance |-> IF j > 0 THEN old[j].lastAdvance ELSE now,
             row |-> slots[k].row, col |-> slots[k].col,
             imageID |-> GifImageID + k - 1]]

\* the image IDs of the animations of old that slots no longer shows
Vanished(old, slots) ==
    {old[j].imageID : j \in {i \in 1..Len(old) :
        \A k \in 1..Len(slots) : slots[k].anim # old[i].anim}}

\* AVPlayer.SetVisibleGifs(slots): p.gifSlots = slots under gifSlotsMu, then
\* withSession: the current session, if any, replaces its visible list
SetVisibleGifs(slots) ==
    /\ gifs.nGifSets < MaxGifSets
    /\ gifs' =
         IF gifs.gifLive
           THEN [gifs EXCEPT
                    !.nGifSets = @ + 1,
                    !.gifSlots = slots,
                    !.visibleGifs = ReplaceVisible(@, slots, gifs.gifNow),
                    !.gifDeleted = Vanished(gifs.visibleGifs, slots)]
           ELSE [gifs EXCEPT !.nGifSets = @ + 1, !.gifSlots = slots]
    /\ UNCHANGED gifRest

\* playOnce: a fresh session becomes current and, when len(p.gifSlots) > 0,
\* gets the stored slots
GifSessionStart ==
    /\ ~gifs.gifLive
    /\ gifs' = [gifs EXCEPT
                   !.gifLive = TRUE,
                   !.visibleGifs = ReplaceVisible(<<>>, gifs.gifSlots,
                                                  gifs.gifNow),
                   !.gifDeleted = {}]
    /\ UNCHANGED gifRest

\* playOnce returns: clearSession, session.cleanup
GifSessionEnd ==
    /\ gifs.gifLive
    /\ gifs' = [gifs EXCEPT
                   !.gifLive = FALSE, !.visibleGifs = <<>>,
                   !.gifDeleted = {}]
    /\ UNCHANGED gifRest

\* the render loop, one frame later: a visible animation whose delay has
\* elapsed advances to its next frame
GifAdvance ==
    /\ gifs.gifLive /\ gifs.gifNow < MaxGifTime
    /\ \E adv \in SUBSET (1..Len(gifs.visibleGifs)) :
          gifs' = [gifs EXCEPT
              !.gifNow = @ + 1,
              !.visibleGifs =
                  [k \in 1..Len(gifs.visibleGifs) |->
                      IF k \in adv
                        THEN [gifs.visibleGifs[k] EXCEPT
                                 !.frameIndex = (@ + 1) % NGifFrames,
                                 !.lastAdvance = gifs.gifNow + 1]
                        ELSE gifs.visibleGifs[k]]]
    /\ UNCHANGED gifRest

NextGifs ==
    \/ \E slots \in SlotLists : SetVisibleGifs(slots)
    \/ GifSessionStart
    \/ GifSessionEnd
    \/ GifAdvance

SpecGifs == InitWith(ComponentEnv("gifs")) /\ [][NextGifs]_vars

\* C29: when SetVisibleGifs replaces the slot list of the current session,
\* an animation of both lists keeps its frame index and last-advance time,
\* an animation of the new list alone starts at frame 0, and the terminal
\* image of every animation of the old list alone is deleted.
C29_GifContinuityAndCleanup ==
    [][(gifs'.nGifSets = gifs.nGifSets + 1 /\ gifs.gifLive) =>
          /\ Len(gifs'.visibleGifs) = Len(gifs'.gifSlots)
          /\ \A k \in 1..Len(gifs'.visibleGifs) :
                /\ gifs'.visibleGifs[k].anim = gifs'.gifSlots[k].anim
                /\ \A j \in 1..Len(gifs.visibleGifs) :
                      gifs.visibleGifs[j].anim = gifs'.visibleGifs[k].anim =>
                          /\ gifs'.visibleGifs[k].frameIndex = gifs.visibleGifs[j].frameIndex
                          /\ gifs'.visibleGifs[k].lastAdvance = gifs.visibleGifs[j].lastAdvance
                /\ (\A j \in 1..Len(gifs.visibleGifs) :
                       gifs.visibleGifs[j].anim # gifs'.visibleGifs[k].anim)
                     => gifs'.visibleGifs[k].frameIndex = 0
          /\ \A j \in 1..Len(gifs.visibleGifs) :
                (\A k \in 1..Len(gifs'.gifSlots) :
                    gifs'.gifSlots[k].anim # gifs.visibleGifs[j].anim)
                  => gifs.visibleGifs[j].imageID \in gifs'.gifDeleted]_vars

\* [A at frame 3, B] was replaced by [A, C]: A is at frame 3 with its time of
\* last advance, C at frame 0, and B's image was deleted
C29_Witness ==
    /\ gifs.gifLive /\ gifs.nGifSets = 2 /\ gifs.gifNow = 3 /\ Len(gifs.visibleGifs) = 2
    /\ gifs.visibleGifs[1].anim = "A" /\ gifs.visibleGifs[1].frameIndex = 3
    /\ gifs.visibleGifs[1].lastAdvance = 3
    /\ gifs.visibleGifs[2].anim = "C" /\ gifs.visibleGifs[2].frameIndex = 0
    /\ gifs.gifDeleted = {GifImageID + 1}

\* ---------------------------------------------------------------------
\* ChromeBackend.Download: the cache and the downloads in flight, one reel

\* Download(index) up to the first unlock of cacheMu: a cached file is
\* returned; with an entry in inProgress the caller waits on its channel;
\* otherwise it makes a done channel, marks the download and fetches
DownloadBegin(d) ==
    /\ downloads.dlPc[d] = "idle" /\ downloads.dlCalls < MaxDlCalls
    /\ downloads' =
         IF downloads.cached
           THEN [downloads EXCEPT
                    !.dlCalls = @ + 1, !.dlRet[d] = "cached"]
           ELSE IF downloads.inProgress # 0
             THEN [downloads EXCEPT
                      !.dlCalls = @ + 1,
                      !.dlWait[d] = downloads.inProgress,
                      !.dlPc[d] = "wait",
                      !.dlRet[d] = "none"]
             ELSE [downloads EXCEPT
                      !.dlCalls = @ + 1,
                      !.chans = @ + 1,
                      !.inProgress = downloads.chans + 1,
                      !.dlDone[d] = downloads.chans + 1,
                      !.dlPc[d] = "fetch",
                      !.dlRet[d] = "none"]
    /\ UNCHANGED dlRest

\* <-ch has returned, cacheMu is taken again: the cache is re-checked and,
\* without a cached file, the caller falls through to
\* `inProgress[videoFile] = done`
DownloadWake(d) ==
    /\ downloads.dlPc[d] = "wait"
    /\ downloads.dlWait[d] \in downloads.closedChans
    /\ downloads' =
         IF downloads.cached
           THEN [downloads EXCEPT
                    !.dlWait[d] = 0,
                    !.dlRet[d] = "cached",
                    !.dlPc[d] = "idle"]
           ELSE [downloads EXCEPT
                    !.dlWait[d] = 0,
                    !.chans = @ + 1,
                    !.inProgress = downloads.chans + 1,
                    !.dlDone[d] = downloads.chans + 1,
                    !.dlPc[d] = "fetch"]
    /\ UNCHANGED dlRest

\* chromedp.Run fetches the video: an error returns through the deferred
\* cleanup
DownloadFetch(d) ==
    /\ downloads.dlPc[d] = "fetch"
    /\ \E ok \in BOOLEAN :
          downloads' =
              IF ok THEN [downloads EXCEPT !.dlPc[d] = "write"]
                    ELSE [downloads EXCEPT
                             !.dlPc[d] = "cleanup", !.dlRet[d] = "error"]
    /\ UNCHANGED dlRest

\* os.WriteFile(videoFile, ...), the profile picture, then add(videoFile)
\* under cacheMu: fifoMap[videoFile] = true
DownloadWrite(d) ==
    /\ downloads.dlPc[d] = "write"
    /\ \E ok \in BOOLEAN :
          downloads' =
              IF ok THEN [downloads EXCEPT
                             !.cached = TRUE,
                             !.dlRet[d] = "downloaded",
                             !.dlPc[d] = "cleanup"]
                    ELSE [downloads EXCEPT
                             !.dlRet[d] = "error",
                             !.dlPc[d] = "cleanup"]
    /\ UNCHANGED dlRest

\* deferred: delete(inProgress, videoFile) under cacheMu
DownloadUnmark(d) ==
    /\ downloads.dlPc[d] = "cleanup"
    /\ downloads' = [downloads EXCEPT
                        !.inProgress = 0, !.dlPc[d] = "close"]
    /\ UNCHANGED dlRest

\* deferred: close(done)
DownloadClose(d) ==
    /\ downloads.dlPc[d] = "close"
    /\ downloads' = [downloads EXCEPT
                        !.closedChans = @ \cup {downloads.dlDone[d]},
                        !.dlPc[d] = "idle"]
    /\ UNCHANGED dlRest

NextDownload ==
    \E d \in Downloaders :
        \/ DownloadBegin(d)
        \/ DownloadWake(d)
        \/ DownloadFetch(d)
        \/ DownloadWrite(d)
        \/ DownloadUnmark(d)
        \/ DownloadClose(d)

\* concurrent Download calls for the same reel
SpecDownload == InitWith(ComponentEnv("downloads")) /\ [][NextDownload]_vars

\* the callers that are fetching or writing the file
Fetching == {d \in Downloaders : downloads.dlPc[d] \in {"fetch", "write"}}

\* C30: for one cache key at most one download is in progress at any time:
\* concurrent Download calls for the same index, several callers that waited
\* on the same download included, never fetch and write concurrently.
C30_OneDownloadPerKey ==
    Cardinality(Fetching) <= 1

\* ================================================================ Pause
\* a Pause() call is between its store to p.paused and the end of its
\* withSession callback
PauseRunning == cpc \in {"pause_with", "pause_audio"}

\* C31: whenever a session is registered as current and no Pause() call is
\* mid-execution, the facade's paused flag equals the paused flag of that
\* session's AudioPlayer.
C31_PauseFlagsAgree ==
    (session # 0 /\ ~PauseRunning) =>
        \A t \in Players :
            (Holds(t, session) /\ audio[t] = "open") =>
                audioPaused[t] = paused

\* ================================================================ Stop and Close against queued Play calls
\* overlapping Play calls against Stop and Close, remembering which Play
\* calls were in flight when Stop() ran
StopEnv == [FacadeEnv EXCEPT !.built = "calls"]

SpecStop == InitWith(StopEnv) /\ [][NextFacade]_vars

\* C32: a Stop() is never lost.  A Play call returns only when its loop test
\* finds playing false (or a session fails), so a Play call that was in
\* flight when the latest Stop() ran, the ones waiting for the play lock
\* included, never comes to its loop test with playing set.
C32_StopNeverLost ==
    \A t \in calls.stopped : pc[t] = "loop" => ~playing

\* C33: Close() returns in finite time when no Play call is invoked after it
\* began.  Close() waits for the play lock after its Stop(), and the UI
\* goroutine makes no other call meanwhile, so while Close() waits nothing
\* has set playing again: the Play calls ahead of it all end.
C33_CloseNotBlocked ==
    cpc = "close_lock" => ~playing

\* ================================================================ control calls
\* One Play call and the control calls of the UI goroutine on one AVPlayer.
\* A session is its audio player, its video decoder and its visible GIFs;
\* the fields s.audio and s.video are written by cleanup() and read by the
\* control calls without a lock.

\* the slot lists SetVisibleGifs is called with here
CtlSlotLists == {sl \in SlotLists : Len(sl) <= 1}

\* the control calls that go through withSession
CtlOps == {"SetSize", "SetVolume", "Mute", "Pause", "SetVisibleGifs",
           "ClearGifs", "Stop"}

\* Play: playing.Store(true); paused.Store(false)
FacPlay ==
    /\ facade.ppc = "idle"
    /\ facade' = [facade EXCEPT !.playing = TRUE, !.paused = FALSE,
                                !.ppc = "loop"]
    /\ UNCHANGED facadeRest

\* for p.playing.Load() { playOnce } return nil
FacLoop ==
    /\ facade.ppc = "loop"
    /\ facade.playing => facade.made < CtlSessions
    /\ facade' = [facade EXCEPT
                     !.ppc = IF facade.playing THEN "new" ELSE "returned"]
    /\ UNCHANGED facadeRest

\* playOnce: cfg := p.sessionConfig() (under configMu, which SetSize holds
\* for its whole call); newPlaySession fails and Play returns the error, or
\* builds the session
FacNewSession ==
    /\ facade.ppc = "new"
    /\ ~(facade.upc # "idle" /\ facade.uop = "SetSize")
    /\ \/ facade' = [facade EXCEPT !.ppc = "returned"]
       \/ facade' = [facade EXCEPT
                        !.made = @ + 1,
                        !.psess = facade.made + 1,
                        !.sess[facade.made + 1] =
                            [audio |-> "open", audioField |-> "set",
                             video |-> "open", videoField |-> "set",
                             cleaning |-> FALSE, visible |-> <<>>],
                        !.ppc = "set"]
    /\ UNCHANGED facadeRest

\* p.setSession(session)
FacSetSession ==
    /\ facade.ppc = "set"
    /\ facade' = [facade EXCEPT !.session = facade.psess,
                                !.ppc = "restore_read"]
    /\ UNCHANGED facadeRest

\* slots := p.gifSlots under gifSlotsMu; if len(slots) > 0 { ... }
FacRestoreRead ==
    /\ facade.ppc = "restore_read"
    /\ facade' = [facade EXCEPT
                     !.pslots = facade.gifSlots,
                     !.ppc = IF Len(facade.gifSlots) > 0
                               THEN "restore_set" ELSE "run"]
    /\ UNCHANGED facadeRest

\* session.setVisibleGifs(slots)
FacRestoreSet ==
    /\ facade.ppc = "restore_set"
    /\ facade' = [facade EXCEPT
                     !.sess[facade.psess].visible =
                         ReplaceVisible(@, facade.pslots, 0),
                     !.pslots = <<>>,
                     !.ppc = "run"]
    /\ UNCHANGED facadeRest

\* session.run(p) returns: end of stream, stop or error
FacRunReturn ==
    /\ facade.ppc = "run"
    /\ facade' = [facade EXCEPT !.ppc = "clear"]
    /\ UNCHANGED facadeRest

\* deferred: p.clearSession(session)
FacClearSession ==
    /\ facade.ppc = "clear"
    /\ facade' = [facade EXCEPT
                     !.session = IF @ = facade.psess THEN 0 ELSE @,
                     !.ppc = "cleanup_audio"]
    /\ UNCHANGED facadeRest

\* cleanup() begins: if s.audio != nil { s.audio.Close()
FacCleanupAudioClose ==
    /\ facade.ppc = "cleanup_audio"
    /\ facade' = [facade EXCEPT
                     !.sess[facade.psess].cleaning = TRUE,
                     !.sess[facade.psess].audio = "closed",
                     !.ppc = "cleanup_audio_nil"]
    /\ UNCHANGED facadeRest

\* s.audio = nil }
FacCleanupAudioNil ==
    /\ facade.ppc = "cleanup_audio_nil"
    /\ facade' = [facade EXCEPT
                     !.sess[facade.psess].audioField = "nil",
                     !.ppc = "cleanup_video"]
    /\ UNCHANGED facadeRest

\* if s.video != nil { s.video.Close()
FacCleanupVideoClose ==
    /\ facade.ppc = "cleanup_video"
    /\ facade' = [facade EXCEPT
                     !.sess[facade.psess].video = "closed",
                     !.ppc = "cleanup_video_nil"]
    /\ UNCHANGED facadeRest

\* s.video = nil }, the demuxer likewise; playOnce returns to Play's loop
FacCleanupVideoNil ==
    /\ facade.ppc = "cleanup_video_nil"
    /\ facade' = [facade EXCEPT
                     !.sess[facade.psess].videoField = "nil",
                     !.psess = 0,
                     !.ppc = "loop"]
    /\ UNCHANGED facadeRest

\* the UI goroutine enters a control call: what the call stores in the
\* AVPlayer before withSession
FacCallBegin(op, slots, vol, size) ==
    /\ facade.upc = "idle" /\ facade.nCalls < CtlCalls
    /\ facade' =
         [facade EXCEPT
             !.nCalls = @ + 1,
             !.upc = "with",
             !.uop = op,
             !.uslots = IF op = "SetVisibleGifs" THEN slots ELSE <<>>,
             !.playing = IF op = "Stop" THEN FALSE ELSE @,
             !.paused = IF op = "Pause" THEN ~@ ELSE @,
             !.muted = IF op = "Mute" THEN ~@ ELSE @,
             !.volume = IF op = "SetVolume" THEN vol ELSE @,
             !.size = IF op = "SetSize" THEN size ELSE @,
             !.gifSlots = CASE op = "SetVisibleGifs" -> slots
                            [] op = "ClearGifs" -> <<>>
                            [] OTHER -> @]
    /\ UNCHANGED facadeRest

\* withSession: s := p.session under sessionMu; fn(s) only if s != nil
FacWithSession ==
    /\ facade.upc = "with"
    /\ facade' = [facade EXCEPT
                     !.us = facade.session,
                     !.upc = IF facade.session = 0 THEN "idle" ELSE "call",
                     !.uop = IF facade.session = 0 THEN "none" ELSE @,
                     !.uslots = IF facade.session = 0 THEN <<>> ELSE @]
    /\ UNCHANGED facadeRest

\* the control call has returned
CallReturned(f) ==
    [f EXCEPT !.upc = "idle", !.uop = "none", !.us = 0, !.uslots = <<>>]

\* a method of the session's audio player or video decoder is invoked by
\* the running control call: remembered when cleanup() of that session has
\* begun
Invoked(f) ==
    IF f.sess[f.us].cleaning
      THEN [f EXCEPT !.late = @ \cup {f.uop}]
      ELSE f

\* the callbacks of Mute, SetVolume and Pause: if s.audio != nil {
\* s.audio.Mute() / SetVolume(vol) / Pause() }.  The read of s.audio is not
\* ordered with the write s.audio = nil of cleanup(): after that write the
\* read gives nil or the pointer of before.
FacAudioCallback ==
    /\ facade.upc = "call"
    /\ facade.uop \in {"Mute", "SetVolume", "Pause"}
    /\ \/ /\ facade.sess[facade.us].audioField = "nil"
          /\ facade' = CallReturned(facade)
       \/ facade' = CallReturned(Invoked(facade))
    /\ UNCHANGED facadeRest

\* the callback of SetSize: if s.video == nil { return };
\* s.video.SourceSize(); s.video.SetSize(dstW, dstH); ...
FacVideoCallback ==
    /\ facade.upc = "call" /\ facade.uop = "SetSize"
    /\ \/ /\ facade.sess[facade.us].videoField = "nil"
          /\ facade' = CallReturned(facade)
       \/ facade' = CallReturned(Invoked(facade))
    /\ UNCHANGED facadeRest

\* the callbacks of SetVisibleGifs and ClearGifs: s.setVisibleGifs(slots),
\* s.clearGifs()
FacGifCallback ==
    /\ facade.upc = "call"
    /\ facade.uop \in {"SetVisibleGifs", "ClearGifs"}
    /\ facade' = CallReturned(
                    [facade EXCEPT
                        !.sess[facade.us].visible =
                            ReplaceVisible(@, facade.uslots, 0)])
    /\ UNCHANGED facadeRest

\* the callback of Stop: s.stop(), which ends run()
FacStopCallback ==
    /\ facade.upc = "call" /\ facade.uop = "Stop"
    /\ facade' = CallReturned(facade)
    /\ UNCHANGED facadeRest

NextControl ==
    \/ FacPlay \/ FacLoop \/ FacNewSession \/ FacSetSession
    \/ FacRestoreRead \/ FacRestoreSet \/ FacRunReturn
    \/ FacClearSession \/ FacCleanupAudioClose \/ FacCleanupAudioNil
    \/ FacCleanupVideoClose \/ FacCleanupVideoNil
    \/ \E op \in CtlOps, slots \in CtlSlotLists, vol \in {0, 1},
          size \in {0, 1} : FacCallBegin(op, slots, vol, size)
    \/ FacWithSession
    \/ FacAudioCallback \/ FacVideoCallback \/ FacGifCallback
    \/ FacStopCallback

SpecControl == InitWith(ComponentEnv("facade")) /\ [][NextControl]_vars

\* C34: no control call invokes a method of a session's video decoder or
\* audio player after cleanup() of that session has begun.
C34_NoCallAfterCleanup ==
    facade.late = {}

\* the slots of a visible list
SlotsOf(visible) ==
    [k \in 1..Len(visible) |->
        [anim |-> visible[k].anim, row |-> visible[k].row,
         col |-> visible[k].col]]

\* C35: once no control call is running and playOnce has finished its
\* restore, the visible GIFs of the current session are the slots stored
\* most recently by SetVisibleGifs or ClearGifs.
C35_GifsFollowLatestSlots ==
    (facade.session # 0 /\ facade.upc = "idle" /\ facade.ppc = "run") =>
        SlotsOf(facade.sess[facade.session].visible) = facade.gifSlots

\* ================================================================ audio drain
\* the device's callback (audioStreamer.Stream) takes the next chunk of
\* decoded audio of the session in slot t from the sample buffer; it emits
\* silence and takes nothing while the player is paused or not playing
AudioDeliver(t) ==
    /\ ~crashed /\ sid[t] # 0 /\ IsPlaying(t)
    /\ calls.delivered[sid[t]] * AudioChunkBytes < AudioBuffered(t)
    /\ calls' = [calls EXCEPT !.delivered[sid[t]] = @ + 1]
    /\ UNCHANGED <<avVars, builtVars>>

NextDrain ==
    \/ Next
    \/ \E t \in Players : AudioDeliver(t)

\* one Play call with the audio device playing what is decoded
DrainEnv == [SessionEnv EXCEPT !.built = "calls"]

SpecDrain == InitWith(DrainEnv) /\ [][NextDrain]_vars

\* the decoded audio of the session in slot t that the device has not taken
Undelivered(t) ==
    AudioBuffered(t) - calls.delivered[sid[t]] * AudioChunkBytes

\* C36: when a session ends at end of stream, with no stop requested and no
\* error, its audio player is not closed while decoded audio remains in the
\* sample buffer.
C36_AudioDrainedBeforeClose ==
    \A t \in Players :
        (status[t] = "cleaning" /\ audio[t] = "closed" /\ ~stopSeen
            /\ loopErr[t] = "nil" /\ ~panicking[t]) =>
                Undelivered(t) = 0

\* ================================================================ VideoDecoder
\* runtime.GOOS
Platforms == {"linux", "darwin", "windows", "other"}

\* getPreferredHardwareTypes
PreferredHardwareTypes(goos) ==
    CASE goos = "darwin" -> <<"videotoolbox">>
      [] goos = "linux" -> <<"cuda", "vaapi", "vdpau">>
      [] goos = "windows" -> <<"d3d11va", "dxva2", "cuda">>
      [] OTHER -> <<>>

\* the hardware device types a codec can list; qsv is preferred nowhere
HwTypes == {"cuda", "vaapi", "vdpau", "videotoolbox", "d3d11va", "dxva2",
            "qsv"}

\* codec.HardwareConfigs(): the types in the codec's order
HwConfigs ==
    {c \in UNION {[1..n -> HwTypes] : n \in 0..MaxConfigs} :
        \A i, j \in DOMAIN c : i # j => c[i] # c[j]}

\* slices.Contains
Contains(list, x) == \E k \in DOMAIN list : list[k] = x

\* tryInitHardware: the loop over the codec's configurations from index i;
\* the first one whose type is in the preferred list and whose device
\* context can be created is returned, "none" standing for (nil, 0)
RECURSIVE TryInitLoop(_, _, _, _)
TryInitLoop(preferred, configs, creatable, i) ==
    IF i > Len(configs) THEN "none"
    ELSE IF ~Contains(preferred, configs[i])
           THEN TryInitLoop(preferred, configs, creatable, i + 1)
    ELSE IF configs[i] \notin creatable
           THEN TryInitLoop(preferred, configs, creatable, i + 1)
    ELSE configs[i]

TryInitHardware(goos, configs, creatable) ==
    IF Len(PreferredHardwareTypes(goos)) = 0
      THEN "none"
      ELSE TryInitLoop(PreferredHardwareTypes(goos), configs, creatable, 1)

\* fitSize.  The quotients of float64 are compared and truncated as the
\* exact ones for widths and heights up to 6.
FitSize(srcW, srcH, maxW, maxH) ==
    IF maxW = 0 \/ maxH = 0
      THEN <<srcW, srcH>>
      ELSE IF srcW * maxH > maxW * srcH
             THEN <<maxW, (maxW * srcH) \div srcW>>
             ELSE <<(maxH * srcW) \div srcH, maxH>>

\* NewVideoDecoder(codecParams, timeBase): the hardware device is tried,
\* the codec context is allocated and opened (a failure returns the error),
\* and the decoder starts with the size of the source
NewVideoDecoder(goos, configs, creatable, w, h, ok) ==
    /\ ~videoDecoder.built /\ ~videoDecoder.failed
    /\ videoDecoder' =
         IF ok
           THEN [videoDecoder EXCEPT
                    !.built = TRUE,
                    !.goos = goos,
                    !.configs = configs,
                    !.creatable = creatable,
                    !.hwType = TryInitHardware(goos, configs, creatable),
                    !.useHardware =
                        TryInitHardware(goos, configs, creatable) # "none",
                    !.srcWidth = w, !.srcHeight = h,
                    !.dstWidth = w, !.dstHeight = h]
           ELSE [videoDecoder EXCEPT !.failed = TRUE]
    /\ UNCHANGED decoderRest

\* newPlaySession and AVPlayer.SetSize: srcW, srcH := video.SourceSize();
\* dstW, dstH := fitSize(srcW, srcH, width, height);
\* video.SetSize(dstW, dstH)
DecoderSetSize(maxW, maxH) ==
    /\ videoDecoder.built /\ videoDecoder.nSizes < MaxSizes
    /\ LET dst == FitSize(videoDecoder.srcWidth, videoDecoder.srcHeight,
                          maxW, maxH)
       IN  videoDecoder' =
               [videoDecoder EXCEPT
                   !.nSizes = @ + 1,
                   !.maxW = maxW, !.maxH = maxH,
                   !.dstWidth = dst[1], !.dstHeight = dst[2]]
    /\ UNCHANGED decoderRest

NextDecoder ==
    \/ /\ ~videoDecoder.built
       /\ \E goos \in Platforms, configs \in HwConfigs, w, h \in 1..MaxDim,
             ok \in BOOLEAN :
             \E creatable \in SUBSET {configs[k] : k \in DOMAIN configs} :
                 NewVideoDecoder(goos, configs, creatable, w, h, ok)
    \/ /\ videoDecoder.built
       /\ \E maxW, maxH \in 0..MaxDim : DecoderSetSize(maxW, maxH)

SpecDecoder == InitWith(ComponentEnv("decoder")) /\ [][NextDecoder]_vars

\* the entries of the preference list that the codec supports and whose
\* device context can be created
Usable(v) ==
    {k \in DOMAIN PreferredHardwareTypes(v.goos) :
        /\ Contains(v.configs, PreferredHardwareTypes(v.goos)[k])
        /\ PreferredHardwareTypes(v.goos)[k] \in v.creatable}

\* C37: the device chosen is the first entry of the platform's preference
\* list that the codec supports and whose device context can be created;
\* with no such entry the decoder is a software decoder.
C37_FirstPreferredDevice ==
    videoDecoder.built =>
        IF Usable(videoDecoder) = {}
          THEN ~videoDecoder.useHardware /\ videoDecoder.hwType = "none"
          ELSE /\ videoDecoder.useHardware
               /\ videoDecoder.hwType =
                    PreferredHardwareTypes(videoDecoder.goos)[
                        CHOOSE k \in Usable(videoDecoder) :
                            \A j \in Usable(videoDecoder) : k <= j]

\* the part of C37 that holds: the device chosen is in the preference list,
\* supported and creatable, and without one the decoder is a software one
C37_ChosenIsUsable ==
    videoDecoder.built =>
        IF Usable(videoDecoder) = {}
          THEN ~videoDecoder.useHardware /\ videoDecoder.hwType = "none"
          ELSE /\ videoDecoder.useHardware
               /\ \E k \in Usable(videoDecoder) :
                     videoDecoder.hwType =
                         PreferredHardwareTypes(videoDecoder.goos)[k]

\* C38: for positive source and bounding-box dimensions fitSize returns
\* (w, h) with 1 <= w <= maxW and 1 <= h <= maxH, one of the two equal to
\* its bound, and w/h the source aspect ratio up to integer truncation.
C38_FitInsideBox ==
    (videoDecoder.nSizes > 0 /\ videoDecoder.maxW > 0
        /\ videoDecoder.maxH > 0) =>
        LET w == videoDecoder.dstWidth
            h == videoDecoder.dstHeight
            srcW == videoDecoder.srcWidth
            srcH == videoDecoder.srcHeight
        IN  /\ 1 <= w /\ w <= videoDecoder.maxW
            /\ 1 <= h /\ h <= videoDecoder.maxH
            /\ w = videoDecoder.maxW \/ h = videoDecoder.maxH
            /\ \/ w = videoDecoder.maxW /\ h = (w * srcH) \div srcW
               \/ h = videoDecoder.maxH /\ w = (h * srcW) \div srcH

\* the part of C38 that holds: the size is inside the box, one side on its
\* bound, the other the truncated quotient; it is not below 0
C38_FitUpperBounds ==
    (videoDecoder.nSizes > 0 /\ videoDecoder.maxW > 0
        /\ videoDecoder.maxH > 0) =>
        LET w == videoDecoder.dstWidth
            h == videoDecoder.dstHeight
            srcW == videoDecoder.srcWidth
            srcH == videoDecoder.srcHeight
        IN  /\ 0 <= w /\ w <= videoDecoder.maxW
            /\ 0 <= h /\ h <= videoDecoder.maxH
            /\ w = videoDecoder.maxW \/ h = videoDecoder.maxH
            /\ \/ w = videoDecoder.maxW /\ h = (w * srcH) \div srcW
               \/ h = videoDecoder.maxH /\ w = (h * srcW) \div srcH

\* ================================================================ download cache
\* types.go: max number of reels that can be in the cache
CacheSize == 10

\* the ways a Download call that has to fetch can end before add()
FetchOutcomes == {"ok", "fetch_fail", "write_fail"}

\* add(filepath) under cacheMu: the path is appended and entered in the
\* map; with more than CacheSize paths the oldest file is removed, and when
\* os.Remove fails add returns the error with list and map as they are
CacheAdd(c, path, removeOk) ==
    LET list == Append(c.fifoList, path)
        keys == c.fifoMap \cup {path}
    IN  IF Len(list) > CacheSize
          THEN IF removeOk /\ list[1] \in c.files
                 THEN [c EXCEPT
                          !.fifoList = Tail(list),
                          !.fifoMap = keys \ {list[1]},
                          !.files = @ \ {list[1]},
                          !.evicted = <<c.fifoList[1], list[1]>>,
                          !.lastErr = "nil"]
                 ELSE [c EXCEPT
                          !.fifoList = list,
                          !.fifoMap = keys,
                          !.lastErr = "remove"]
          ELSE [c EXCEPT !.fifoList = list, !.fifoMap = keys,
                         !.lastErr = "nil"]

\* the UI moves to a neighbouring reel and calls Download(index): a cached
\* file is returned at once; otherwise the video is fetched and written to
\* the cache directory and add(videoFile) is called
CacheDownload(index, outcome, removeOk) ==
    /\ cache.nCalls < MaxCacheCalls
    /\ index \in 1..NReels
    /\ index = cache.cur + 1 \/ index = cache.cur - 1
    /\ cache' =
         IF index \in cache.fifoMap
           THEN [cache EXCEPT !.nCalls = @ + 1, !.cur = index,
                              !.lastErr = "nil"]
           ELSE IF outcome = "ok"
             THEN CacheAdd([cache EXCEPT !.nCalls = @ + 1, !.cur = index,
                                         !.files = @ \cup {index}],
                           index, removeOk)
             ELSE [cache EXCEPT !.nCalls = @ + 1, !.lastErr = outcome]
    /\ UNCHANGED cacheRest

NextCache ==
    \E index \in 1..NReels, outcome \in FetchOutcomes, removeOk \in BOOLEAN :
        CacheDownload(index, outcome, removeOk)

SpecCache == InitWith(ComponentEnv("cache")) /\ [][NextCache]_vars

\* C39: after every completed add() and Download() the cache holds at most
\* CacheSize files, the FIFO list has no duplicate path, the keys of the
\* lookup map are the paths of the list, and an eviction removed the oldest
\* entry.
C39_CacheBoundedFifo ==
    /\ Len(cache.fifoList) <= CacheSize
    /\ Cardinality(cache.files) <= CacheSize
    /\ \A i, j \in DOMAIN cache.fifoList :
          i # j => cache.fifoList[i] # cache.fifoList[j]
    /\ cache.fifoMap = Range(cache.fifoList)
    /\ cache.evicted # <<>> => cache.evicted[1] = cache.evicted[2]

\* the part of C39 that holds when Download is called for one reel at a
\* time: no duplicate path, the map's keys are the list's paths, and every
\* eviction removed the oldest entry
C39_ListAndMapAgree ==
    /\ \A i, j \in DOMAIN cache.fifoList :
          i # j => cache.fifoList[i] # cache.fifoList[j]
    /\ cache.fifoMap = Range(cache.fifoList)
    /\ cache.evicted # <<>> => cache.evicted[1] = cache.evicted[2]

====
